---- MODULE Spec2Model ----
(***************************************************************************)
(* A model of rag-second-brain: the document store wrapper                 *)
(* (rag/core/database.py), the search engine (rag/core/search.py), the     *)
(* query preprocessor (src/query_preprocessor.py) and the fallback search  *)
(* orchestrator (src/fallback_search.py).                                  *)
(*                                                                         *)
(* Strings are sequences of one-character strings.  Scores are integers in *)
(* thousandths (1000 stands for 1.0); weights are integers in tenths.      *)
(* A Python Optional is a set: {} is None and {x} is the value x.          *)
(***************************************************************************)
EXTENDS Integers, Sequences, FiniteSets, TLC

VARIABLES
    collection,   \* DatabaseManager.collection is not None
    store,        \* the documents of the collection, in insertion order
    dbResult,     \* what the last DatabaseManager call returned or raised
    fpc,          \* where the running fallback-engine call stands
    fCall,        \* the arguments of the running call and the engine it runs on
    all_results,  \* search_with_fallback / search_with_variations: all_results
    seen_docs,    \* ... and seen_docs
    fQueue,       \* the queries the current stage has still to search
    fLog,         \* the calls of _execute_search so far, with what each found
    fReturn,      \* the list the call returned
    sCall,        \* the arguments of the last SearchEngine call and the store it met
    sResult,      \* what the last SearchEngine call returned or raised
    mcpTasks,     \* the tool invocations of the MCP server, each with where it stands
    mcpCurrent,   \* the task that holds the event loop, if any
    mcpStore,     \* the store the MCP server indexes into: who added each document
    cli,          \* the command line's last command and what it showed
    pre,          \* the last QueryPreprocessor call and what it returned
    tok,          \* the running JapaneseAnalyzer.tokenize call: text, position, tokens
    loader,       \* the last DocumentLoader.chunk_document call and what it returned
    cfg,          \* the last ConfigManager construction and what it gave
    gen           \* the last DictionaryGenerator call and what it returned

dbVars == <<collection, store, dbResult>>

fVars == <<fpc, fCall, all_results, seen_docs, fQueue, fLog, fReturn>>

sVars == <<sCall, sResult>>

mVars == <<mcpTasks, mcpCurrent, mcpStore>>

vars == <<collection, store, dbResult, fpc, fCall, all_results, seen_docs, fQueue, fLog,
          fReturn, sCall, sResult, mcpTasks, mcpCurrent, mcpStore, cli,
          pre, tok, loader, cfg, gen>>

(***************************************************************************)
(* Strings                                                                 *)
(***************************************************************************)
Space == " "

\* str.strip() is empty: the string holds nothing but whitespace
IsBlank(s) == \A i \in 1..Len(s) : s[i] = Space

\* the elements of a sequence, as a set
Range(s) == {s[i] : i \in 1..Len(s)}

None == {}

Some(x) == {x}

TheValue(opt) == CHOOSE x \in opt : TRUE

(***************************************************************************)
(* The document store: rag/core/database.py                                *)
(***************************************************************************)
\* the cap on stored documents (the code has none)
MaxDocs == 2

Absent == "absent"

Projects == {"p1", "p2"}

DbTexts == {<<>>, <<" ">>, <<"a">>}

SuppliedIds == {<<"i", "1">>}

\* the metadata dictionaries a caller passes: an optional project_id.  The
\* created_at and updated_at stamps the manager adds are left out of the model.
MetaInputs == [project_id : Projects \cup {Absent}]

\* "doc_" + md5(text)[:16]: a function of the text alone
AutoId(text) == <<"doc_", "md5:">> \o text

\* the where clause of the store: equality on project_id
Matches(meta, filters) == meta.project_id = filters.project_id

Filters == [project_id : Projects]

StoreIds(s) == {s[i].id : i \in 1..Len(s)}

IndexOf(s, id) == CHOOSE i \in 1..Len(s) : s[i].id = id

RECURSIVE Without(_, _)
\* collection.delete(ids): the documents that stay, in order
Without(s, ids) ==
    IF s = <<>> THEN <<>>
    ELSE IF s[1].id \in ids THEN Without(Tail(s), ids)
         ELSE <<s[1]>> \o Without(Tail(s), ids)

RECURSIVE Matching(_, _)
\* collection.get(where=filters): the documents the filter selects, in order
Matching(s, filters) ==
    IF s = <<>> THEN <<>>
    ELSE IF Matches(s[1].metadata, filters)
         THEN <<s[1]>> \o Matching(Tail(s), filters)
         ELSE Matching(Tail(s), filters)

Ids(s) == [i \in 1..Len(s) |-> s[i].id]

NoValue == [flag |-> FALSE, ids |-> <<>>, docs |-> <<>>, projects |-> <<>>, count |-> 0]

Result(op, status, value) ==
    [op |-> op, status |-> status, flag |-> value.flag, ids |-> value.ids,
     docs |-> value.docs, projects |-> value.projects, count |-> value.count]

Raise(op, status) ==
    /\ dbResult' = Result(op, status, NoValue)
    /\ UNCHANGED <<collection, store>>

\* DatabaseManager.__init__: a new manager on the same store path
DatabaseManagerInit ==
    /\ collection' = FALSE
    /\ dbResult' = Result("init", "ok", NoValue)
    /\ UNCHANGED store

\* create_collection always making the collection anew
CreateCollectionRecreates ==
    \/ /\ collection' = TRUE
       /\ store' = <<>>
       /\ dbResult' = Result("create_collection", "ok", NoValue)
    \/ Raise("create_collection", "store_error")

\* create_collection: get the collection, or create it; either call may raise
CreateCollection ==
    \/ /\ collection' = TRUE
       /\ dbResult' = Result("create_collection", "ok", NoValue)
       /\ UNCHANGED store
    \/ Raise("create_collection", "store_error")

\* the metadata add_document stores: the caller's, or {} for None
AddedMetadata(metadata) ==
    IF metadata = None THEN [project_id |-> Absent] ELSE TheValue(metadata)

\* add_document without its empty-text check
AddDocumentNoTextCheck(text, metadata, doc_id) ==
    IF ~collection THEN Raise("add_document", "no_collection")
    ELSE LET id == IF doc_id = None \/ TheValue(doc_id) = <<>>
                   THEN AutoId(text) ELSE TheValue(doc_id)
             doc == [id |-> id, text |-> text, metadata |-> AddedMetadata(metadata)]
         IN \/ /\ id \notin StoreIds(store)
               /\ Len(store) < MaxDocs
               /\ store' = Append(store, doc)
               /\ dbResult' = Result("add_document", "ok", [NoValue EXCEPT !.ids = <<id>>])
               /\ UNCHANGED collection
            \/ /\ id \in StoreIds(store)
               /\ dbResult' = Result("add_document", "ok", [NoValue EXCEPT !.ids = <<id>>])
               /\ UNCHANGED <<collection, store>>
            \/ Raise("add_document", "store_error")

AddDocument(text, metadata, doc_id) ==
    IF ~collection THEN Raise("add_document", "no_collection")
    ELSE IF text = <<>> \/ IsBlank(text) THEN Raise("add_document", "empty_text")
    ELSE LET id == IF doc_id = None \/ TheValue(doc_id) = <<>>
                   THEN AutoId(text) ELSE TheValue(doc_id)
             doc == [id |-> id, text |-> text, metadata |-> AddedMetadata(metadata)]
         IN \/ /\ id \notin StoreIds(store)
               /\ Len(store) < MaxDocs
               /\ store' = Append(store, doc)
               /\ dbResult' = Result("add_document", "ok", [NoValue EXCEPT !.ids = <<id>>])
               /\ UNCHANGED collection
            \/ \* the store ignores an add of an id it already holds
               /\ id \in StoreIds(store)
               /\ dbResult' = Result("add_document", "ok", [NoValue EXCEPT !.ids = <<id>>])
               /\ UNCHANGED <<collection, store>>
            \/ Raise("add_document", "store_error")

\* search: the raw bundle is the search engine's concern; here only its outcome
Search(query, filters) ==
    IF ~collection THEN Raise("search", "no_collection")
    ELSE IF query = <<>> \/ IsBlank(query) THEN Raise("search", "empty_query")
    ELSE \/ /\ dbResult' = Result("search", "ok",
                   [NoValue EXCEPT !.ids = Ids(IF filters = None THEN store
                                               ELSE Matching(store, TheValue(filters)))])
            /\ UNCHANGED <<collection, store>>
         \/ Raise("search", "store_error")

\* delete_document without its collection check
DeleteDocumentUnguarded(doc_id) ==
    \/ /\ doc_id \notin StoreIds(store)
       /\ dbResult' = Result("delete_document", "ok", NoValue)
       /\ UNCHANGED <<collection, store>>
    \/ /\ doc_id \in StoreIds(store)
       /\ store' = Without(store, {doc_id})
       /\ dbResult' = Result("delete_document", "ok", [NoValue EXCEPT !.flag = TRUE])
       /\ UNCHANGED collection

DeleteDocument(doc_id) ==
    IF ~collection THEN Raise("delete_document", "no_collection")
    ELSE \/ /\ doc_id \notin StoreIds(store)
            /\ dbResult' = Result("delete_document", "ok", NoValue)
            /\ UNCHANGED <<collection, store>>
         \/ /\ doc_id \in StoreIds(store)
            /\ store' = Without(store, {doc_id})
            /\ dbResult' = Result("delete_document", "ok", [NoValue EXCEPT !.flag = TRUE])
            /\ UNCHANGED collection
         \/ Raise("delete_document", "store_error")

\* collection.update(metadatas=[m]): the store merges m into the old metadata,
\* or replaces the old metadata by m, depending on the store's version
StoreUpdatedMetadata(old, m) ==
    {m, [project_id |-> IF m.project_id = Absent THEN old.project_id ELSE m.project_id]}

\* update_document writing through an upsert: an absent id is created
UpdateDocumentUpsert(doc_id, text, metadata) ==
    IF ~collection THEN Raise("update_document", "no_collection")
    ELSE IF text = None /\ metadata = None THEN Raise("update_document", "no_updates")
    ELSE /\ doc_id \notin StoreIds(store)
         /\ text # None
         /\ Len(store) < MaxDocs
         /\ store' = Append(store, [id |-> doc_id, text |-> TheValue(text),
                                    metadata |-> AddedMetadata(metadata)])
         /\ dbResult' = Result("update_document", "ok", NoValue)
         /\ UNCHANGED collection

UpdateDocument(doc_id, text, metadata) ==
    IF ~collection THEN Raise("update_document", "no_collection")
    ELSE IF text = None /\ metadata = None THEN Raise("update_document", "no_updates")
    ELSE \/ /\ doc_id \notin StoreIds(store)
            /\ dbResult' = Result("update_document", "ok", NoValue)
            /\ UNCHANGED <<collection, store>>
         \/ /\ doc_id \in StoreIds(store)
            /\ LET i == IndexOf(store, doc_id)
                   old == store[i]
                   newText == IF text = None THEN old.text ELSE TheValue(text)
               IN \E newMeta \in IF metadata = None THEN {old.metadata}
                                 ELSE StoreUpdatedMetadata(old.metadata, TheValue(metadata)) :
                      store' = [store EXCEPT ![i] =
                                    [id |-> doc_id, text |-> newText, metadata |-> newMeta]]
            /\ dbResult' = Result("update_document", "ok", [NoValue EXCEPT !.flag = TRUE])
            /\ UNCHANGED collection
         \/ Raise("update_document", "store_error")

ListDocuments(limit) ==
    IF ~collection THEN Raise("list_documents", "no_collection")
    ELSE \/ /\ dbResult' = Result("list_documents", "ok",
                   [NoValue EXCEPT !.docs =
                        IF limit = None \/ TheValue(limit) >= Len(store) THEN store
                        ELSE SubSeq(store, 1, TheValue(limit))])
            /\ UNCHANGED <<collection, store>>
         \/ Raise("list_documents", "store_error")

GetCollectionInfo ==
    IF ~collection THEN Raise("get_collection_info", "no_collection")
    ELSE \/ /\ dbResult' = Result("get_collection_info", "ok",
                                  [NoValue EXCEPT !.count = Len(store)])
            /\ UNCHANGED <<collection, store>>
         \/ Raise("get_collection_info", "store_error")

DeleteByMetadata(filters) ==
    IF ~collection THEN Raise("delete_by_metadata", "no_collection")
    ELSE \/ LET doc_ids == Ids(Matching(store, filters))
            IN /\ store' = IF doc_ids # <<>> THEN Without(store, Range(doc_ids)) ELSE store
               /\ dbResult' = Result("delete_by_metadata", "ok",
                                     [NoValue EXCEPT !.ids = doc_ids])
               /\ UNCHANGED collection
         \/ Raise("delete_by_metadata", "store_error")

\* list_projects appending an entry per document, never looking the project up
CountProjectNoLookup(projects, project_id) ==
    Append(projects, [id |-> project_id, name |-> project_id, document_count |-> 1])

\* projects[project_id]["document_count"] += 1, the entry created at 0 when new
CountProject(projects, project_id) ==
    IF \E j \in 1..Len(projects) : projects[j].id = project_id
    THEN [j \in 1..Len(projects) |->
            IF projects[j].id = project_id
            THEN [projects[j] EXCEPT !.document_count = @ + 1]
            ELSE projects[j]]
    ELSE Append(projects, [id |-> project_id, name |-> project_id, document_count |-> 1])

RECURSIVE ListProjectsLoop(_, _)
\* the loop of list_projects over results["metadatas"]
ListProjectsLoop(docs, projects) ==
    IF docs = <<>> THEN projects
    ELSE ListProjectsLoop(Tail(docs),
            IF docs[1].metadata.project_id # Absent
            THEN CountProject(projects, docs[1].metadata.project_id)
            ELSE projects)

ListProjects ==
    IF ~collection THEN Raise("list_projects", "no_collection")
    ELSE \/ /\ dbResult' = Result("list_projects", "ok",
                   [NoValue EXCEPT !.projects = ListProjectsLoop(store, <<>>)])
            /\ UNCHANGED <<collection, store>>
         \/ Raise("list_projects", "store_error")

\* reset_collection: delete_collection, then create_collection; either may raise
ResetCollection ==
    IF ~collection THEN Raise("reset_collection", "no_collection")
    ELSE \/ /\ store' = <<>>
            /\ dbResult' = Result("reset_collection", "ok", NoValue)
            /\ UNCHANGED collection
         \/ Raise("reset_collection", "store_error")
         \/ /\ store' = <<>>
            /\ dbResult' = Result("reset_collection", "store_error", NoValue)
            /\ UNCHANGED collection

\* the ids a document can have: a supplied one, or the hash of a text add_document accepts
DocIds == SuppliedIds \cup {AutoId(t) : t \in {x \in DbTexts : ~IsBlank(x)}}

OptTexts == {None} \cup {Some(t) : t \in DbTexts}

OptMetas == {None} \cup {Some(m) : m \in MetaInputs}

OptIds == {None} \cup {Some(i) : i \in SuppliedIds}

Limits == {None} \cup {Some(n) : n \in 1..MaxDocs}

\* one call of a document operation
DocumentOperation ==
    \/ \E text \in DbTexts, metadata \in OptMetas, doc_id \in OptIds :
            AddDocument(text, metadata, doc_id)
    \/ \E query \in DbTexts, filters \in {None} \cup {Some(f) : f \in Filters} :
            Search(query, filters)
    \/ \E doc_id \in DocIds : DeleteDocument(doc_id)
    \/ \E doc_id \in DocIds,
          text \in OptTexts, metadata \in OptMetas :
            UpdateDocument(doc_id, text, metadata)
    \/ \E limit \in Limits : ListDocuments(limit)
    \/ GetCollectionInfo
    \/ \E filters \in Filters : DeleteByMetadata(filters)
    \/ ListProjects
    \/ ResetCollection

InitDB ==
    /\ collection = FALSE
    /\ store = <<>>
    /\ dbResult = Result("init", "ok", NoValue)

NextDB ==
    \/ DatabaseManagerInit /\ UNCHANGED <<fVars, sVars, mVars, cli, pre, tok, loader, cfg, gen>>
    \/ CreateCollection /\ UNCHANGED <<fVars, sVars, mVars, cli, pre, tok, loader, cfg, gen>>
    \/ DocumentOperation /\ UNCHANGED <<fVars, sVars, mVars, cli, pre, tok, loader, cfg, gen>>

(***************************************************************************)
(* The query preprocessor: src/query_preprocessor.py                       *)
(***************************************************************************)
\* the characters of the model: [a-zA-Z], [0-9], the kanji and kana ranges of
\* the patterns, whitespace, and any other symbol
Latin == {"a", "b"}

Digit == {"1"}

CJK == {"J1", "J2"}

Alnum == Latin \cup Digit

Symbol == {"!"}

\* `t in s` of Python strings
Contains(s, t) ==
    \E i \in 1..(Len(s) - Len(t) + 1) : SubSeq(s, i, i + Len(t) - 1) = t

From(s, i) == SubSeq(s, i, Len(s))

RECURSIVE Replace(_, _, _)
\* s.replace(old, new): every non-overlapping occurrence, leftmost first
Replace(s, old, new) ==
    IF old = <<>> \/ Len(s) < Len(old) THEN s
    ELSE IF SubSeq(s, 1, Len(old)) = old
         THEN new \o Replace(From(s, Len(old) + 1), old, new)
         ELSE <<s[1]>> \o Replace(Tail(s), old, new)

RECURSIVE Join(_)
\* ' '.join(parts)
Join(parts) ==
    IF parts = <<>> THEN <<>>
    ELSE IF Len(parts) = 1 THEN parts[1]
         ELSE parts[1] \o <<Space>> \o Join(Tail(parts))

RECURSIVE RunLen(_, _)
\* the length of the longest prefix of s made of characters of class
RunLen(s, class) ==
    IF s = <<>> \/ s[1] \notin class THEN 0 ELSE 1 + RunLen(Tail(s), class)

RECURSIVE ExtractWords(_)
\* re.findall of [kanji kana]+|[a-zA-Z0-9]+
ExtractWords(text) ==
    IF text = <<>> THEN <<>>
    ELSE IF text[1] \in CJK
         THEN LET n == RunLen(text, CJK)
              IN <<SubSeq(text, 1, n)>> \o ExtractWords(From(text, n + 1))
    ELSE IF text[1] \in Alnum
         THEN LET n == RunLen(text, Alnum)
              IN <<SubSeq(text, 1, n)>> \o ExtractWords(From(text, n + 1))
    ELSE ExtractWords(Tail(text))

RECURSIVE SpaceBetween(_, _, _)
\* re.sub of ([first]+)([second]+) by \1 \2, for disjoint classes
SpaceBetween(s, first, second) ==
    IF s = <<>> THEN <<>>
    ELSE IF s[1] \in first
         THEN LET n == RunLen(s, first)
                  rest == From(s, n + 1)
                  m == RunLen(rest, second)
              IN IF m > 0
                 THEN SubSeq(s, 1, n) \o <<Space>> \o SubSeq(rest, 1, m)
                        \o SpaceBetween(From(rest, m + 1), first, second)
                 ELSE SubSeq(s, 1, n) \o SpaceBetween(rest, first, second)
    ELSE <<s[1]>> \o SpaceBetween(Tail(s), first, second)

\* _handle_mixed_language
HandleMixedLanguage(query) ==
    LET spaced_query == SpaceBetween(SpaceBetween(query, Latin, CJK), CJK, Latin)
    IN IF spaced_query # query THEN <<spaced_query>> ELSE <<>>

\* queries.append(q) under `if q not in queries`
AppendNew(queries, q) == IF q \in Range(queries) THEN queries ELSE Append(queries, q)

\* a list returned as it was built
KeepAll(queries, seen) == queries

RECURSIVE Dedupe(_, _)
\* list(dict.fromkeys(queries)): first occurrences, in order
Dedupe(queries, seen) ==
    IF queries = <<>> THEN <<>>
    ELSE IF queries[1] \in seen THEN Dedupe(Tail(queries), seen)
         ELSE <<queries[1]>> \o Dedupe(Tail(queries), seen \cup {queries[1]})

\* the built-in expansion table, cut down to the model's characters: one word
\* with a Latin expansion and, as for the table's own last entry, itself
ExpansionRules ==
    << [word |-> <<"J2">>, expansions |-> << <<"b">>, <<"J2">> >>] >>

\* compound-term dictionaries: a term, its tokens and its synonyms, either of
\* which an entry may lack
Term(term, tokens, synonyms) == [term |-> term, tokens |-> tokens, synonyms |-> synonyms]

\* no dictionary file, and a dictionary file of three terms
Dictionaries ==
    { <<>>,
      << Term(<<"J1", "J2">>, Some(<< <<"J1">>, <<"J2">> >>), Some(<< <<"a">> >>)),
         Term(<<"a", "b">>, Some(<< <<"a">>, <<"b">> >>), None),
         Term(<<"J1">>, None, Some(<< <<"J2">> >>)) >> }

RECURSIVE ReplaceEach(_, _, _, _)
\* one variant per replacement, appended when new
ReplaceEach(queries, query, old, news) ==
    IF news = <<>> THEN queries
    ELSE ReplaceEach(AppendNew(queries, Replace(query, old, news[1])), query, old, Tail(news))

RECURSIVE ExpandCompounds(_, _, _)
\* preprocess, step 1: the loop over the compound-term dictionary
ExpandCompounds(queries, query, terms) ==
    IF terms = <<>> THEN queries
    ELSE LET info == terms[1]
             withTokens ==
                IF info.tokens # None
                THEN AppendNew(queries, Replace(query, info.term, Join(TheValue(info.tokens))))
                ELSE queries
             withSynonyms ==
                IF info.synonyms # None
                THEN ReplaceEach(withTokens, query, info.term, TheValue(info.synonyms))
                ELSE withTokens
         IN ExpandCompounds(IF Contains(query, info.term) THEN withSynonyms ELSE queries,
                            query, Tail(terms))

Expansions(word) ==
    IF \E r \in Range(ExpansionRules) : r.word = word
    THEN (CHOOSE r \in Range(ExpansionRules) : r.word = word).expansions
    ELSE <<>>

RECURSIVE ExpandWords(_, _, _)
\* preprocess, step 2: the loop over the words of the query
ExpandWords(queries, query, words) ==
    IF words = <<>> THEN queries
    ELSE ExpandWords(ReplaceEach(queries, query, words[1], Expansions(words[1])),
                     query, Tail(words))

\* QueryPreprocessor.preprocess
Preprocess(query, terms) ==
    LET compounds == ExpandCompounds(<<query>>, query, terms)
        expanded == ExpandWords(compounds, query, ExtractWords(query))
    IN Dedupe(expanded \o HandleMixedLanguage(query), {})

RECURSIVE SplitCompounds(_, _, _)
\* split_query: the loop over the dictionary; yields the parts and what remains
SplitCompounds(parts, remaining, terms) ==
    IF terms = <<>> THEN [parts |-> parts, remaining |-> remaining]
    ELSE LET info == terms[1]
         IN IF Contains(remaining, info.term) /\ info.tokens # None
            THEN SplitCompounds(parts \o TheValue(info.tokens),
                                Replace(remaining, info.term, <<>>), Tail(terms))
            ELSE SplitCompounds(parts, remaining, Tail(terms))

RECURSIVE NonBlank(_)
\* [p for p in parts if p.strip()]
NonBlank(parts) ==
    IF parts = <<>> THEN <<>>
    ELSE IF IsBlank(parts[1]) THEN NonBlank(Tail(parts))
         ELSE <<parts[1]>> \o NonBlank(Tail(parts))

\* QueryPreprocessor.split_query
SplitQuery(query, terms) ==
    LET r == SplitCompounds(<<>>, query, terms)
    IN NonBlank(IF ~IsBlank(r.remaining) THEN r.parts \o ExtractWords(r.remaining)
                ELSE r.parts)

\* weights of get_query_variations, in tenths
OriginalWeight == 10

PreprocessedBaseWeight == 8

SplitVariationWeight == 3

Variation(query, weight, type) == [query |-> query, weight |-> weight, type |-> type]

Take(s, n) == SubSeq(s, 1, IF n < Len(s) THEN n ELSE Len(s))

\* QueryPreprocessor.get_query_variations
GetQueryVariations(query, max_variations, terms) ==
    LET preprocessed == Preprocess(query, terms)
        sliced == Take(Tail(preprocessed), max_variations - 1)
        variations ==
            <<Variation(query, OriginalWeight, "original")>>
            \o [i \in 1..Len(sliced) |->
                    Variation(sliced[i], PreprocessedBaseWeight - i, "preprocessed")]
        parts == SplitQuery(query, terms)
        withSplit ==
            IF Len(variations) < max_variations /\ parts # <<>>
            THEN Append(variations, Variation(Join(parts), SplitVariationWeight, "split"))
            ELSE variations
    IN Take(withSplit, max_variations)

(***************************************************************************)
(* The fallback search engine: src/fallback_search.py                      *)
(***************************************************************************)
\* the largest top_k and min_results a call is given
MaxTopK == 2

MaxMinResults == 2

\* the documents the underlying search engine can return, and the raw scores
\* it gives them (in thousandths)
FDocs == {"d1", "d2"}

RawScores == {500, 1000}

\* the queries searched for: no word, one word, one word and a symbol, words
\* separated by spaces, mixed scripts, dictionary terms, an expandable word
FQueries ==
    { <<"!">>, <<"a">>, <<"a", "!">>, <<"a", " ", "b">>, <<"a", "b">>, <<"a", "J1">>,
      <<"J1", "J2">>, <<"J2">>, <<"a", " ", "b", " ", "J2">> }

\* method_weights of _rank_and_limit, in tenths
DirectWeight == 10

PreprocessedWeight == 8

FallbackWeight == 6

SplitWeight == 4

DefaultWeight == 5

\* method_weights.get(method, 0.5)
MethodWeight(method) ==
    CASE method = "direct" -> DirectWeight
      [] method = "preprocessed" -> PreprocessedWeight
      [] method = "fallback" -> FallbackWeight
      [] method = "split" -> SplitWeight
      [] OTHER -> DefaultWeight

\* score * weight, the weight in tenths
Weighted(score, weight) == (score * weight) \div 10

\* _create_search_result: the engine's score, tagged with the search method
CreateSearchResult(document_id, score, method) ==
    [document_id |-> document_id, score |-> score, search_method |-> method]

RECURSIVE InsertByScore(_, _)
\* x behind every element whose score is at least x's
InsertByScore(sorted, x) ==
    IF sorted = <<>> THEN <<x>>
    ELSE IF sorted[1].score >= x.score THEN <<sorted[1]>> \o InsertByScore(Tail(sorted), x)
         ELSE <<x>> \o sorted

RECURSIVE SortByScore(_, _)
\* results.sort(key=score, reverse=True): stable, highest score first
SortByScore(results, sorted) ==
    IF results = <<>> THEN sorted
    ELSE SortByScore(Tail(results), InsertByScore(sorted, results[1]))

\* the loop of _rank_and_limit run twice over the results
ApplyMethodWeightsTwice(results) ==
    [i \in 1..Len(results) |->
        [results[i] EXCEPT !.score =
            Weighted(Weighted(@, MethodWeight(results[i].search_method)),
                     MethodWeight(results[i].search_method))]]

\* the loop of _rank_and_limit: result.score = result.score * weight
ApplyMethodWeights(results) ==
    [i \in 1..Len(results) |->
        [results[i] EXCEPT !.score = Weighted(@, MethodWeight(results[i].search_method))]]

\* _rank_and_limit
RankAndLimit(results, top_k) == Take(SortByScore(ApplyMethodWeights(results), <<>>), top_k)

\* the lists of hits the engine can return: distinct documents
HitLists ==
    {x \in UNION {[1..n -> FDocs] : n \in 0..Cardinality(FDocs)} :
        \A i, j \in 1..Len(x) : x[i] = x[j] => i = j}

\* split_parts
SplitParts == SplitQuery(fCall.query, fCall.terms)

\* what one call of _execute_search can come to: it raises when no search
\* engine is set; otherwise it returns the engine's hits, distinct documents
\* and at most limit of them, or [] (also when the engine itself raises)
\* When the call's engine is one that finds a document for every part of the
\* query (parts_match), a search for a part is not empty.
Outcomes(query, limit) ==
    IF ~fCall.engine THEN {[raised |-> TRUE, hits |-> <<>>]}
    ELSE LET part == fCall.parts_match /\ query \in Range(SplitParts)
         IN {[raised |-> FALSE, hits |-> h] :
                h \in {x \in HitLists : Len(x) <= limit /\ (part => x # <<>>)}}

RECURSIVE AccumulateNoSeenCheck(_, _, _, _)
\* the loop without the seen_docs test: every hit is appended
AccumulateNoSeenCheck(results, seen, hits, method) ==
    IF hits = <<>> THEN results
    ELSE AccumulateNoSeenCheck(
            Append(results, CreateSearchResult(hits[1], fCall.score[hits[1]], method)),
            seen, Tail(hits), method)

RECURSIVE Accumulate(_, _, _, _)
\* search_with_fallback, the loop over the hits of one search: a document not
\* in seen_docs is appended and seen
Accumulate(results, seen, hits, method) ==
    IF hits = <<>> THEN results
    ELSE IF hits[1] \in seen THEN Accumulate(results, seen, Tail(hits), method)
         ELSE Accumulate(
                Append(results, CreateSearchResult(hits[1], fCall.score[hits[1]], method)),
                seen \cup {hits[1]}, Tail(hits), method)

RECURSIVE AccumulateWeighted(_, _, _, _)
\* search_with_variations, the same loop: search_result.score *= variation['weight']
AccumulateWeighted(results, seen, hits, variation) ==
    IF hits = <<>> THEN results
    ELSE IF hits[1] \in seen
         THEN AccumulateWeighted(results, seen, Tail(hits), variation)
         ELSE AccumulateWeighted(
                Append(results,
                       [CreateSearchResult(hits[1], fCall.score[hits[1]], variation.type)
                          EXCEPT !.score = Weighted(@, variation.weight)]),
                seen \cup {hits[1]}, Tail(hits), variation)

LogEntry(stage, query, limit, outcome, count) ==
    [stage |-> stage, query |-> query, limit |-> limit, issued |-> ~outcome.raised,
     ids |-> Range(outcome.hits), count |-> count]

\* the call returns
Return(results) ==
    /\ fpc' = "done"
    /\ fReturn' = RankAndLimit(results, fCall.top_k)
    /\ fQueue' = <<>>

\* preprocessed_queries[1:3], less the entries equal to the query
Variants ==
    LET p == Preprocess(fCall.query, fCall.terms)
        sliced == Take(Tail(p), 2)
    IN NonBlank([i \in 1..Len(sliced) |-> IF sliced[i] = fCall.query THEN <<>> ELSE sliced[i]])

\* past the split-part searches: the combined search of two parts, or the end
AfterParts(results) ==
    IF Len(SplitParts) = 2
    THEN /\ fpc' = "combined"
         /\ fQueue' = <<Join(<<SplitParts[1], SplitParts[2]>>)>>
         /\ UNCHANGED fReturn
    ELSE Return(results)

\* past the preprocessed stage with no split stage behind it
AfterPreprocessedNoSplit(results) == Return(results)

\* past the preprocessed stage: the split stage when the query has parts
AfterPreprocessed(results) ==
    IF Len(SplitParts) > 1
    THEN /\ fpc' = "split"
         /\ fQueue' = SplitParts
         /\ UNCHANGED fReturn
    ELSE Return(results)

\* past the direct stage
AfterDirect(results) ==
    IF Variants # <<>>
    THEN /\ fpc' = "preprocessed"
         /\ fQueue' = Variants
         /\ UNCHANGED fReturn
    ELSE AfterPreprocessed(results)

\* search_with_fallback is called
StartFallback(query, top_k, min_results, engine, terms, score, parts_match) ==
    /\ fpc = "idle"
    /\ parts_match => engine
    /\ fpc' = "direct"
    /\ fCall' = [kind |-> "fallback", query |-> query, top_k |-> top_k,
                 min_results |-> min_results, engine |-> engine, terms |-> terms,
                 score |-> score, parts_match |-> parts_match]
    /\ UNCHANGED <<all_results, seen_docs, fQueue, fLog, fReturn>>

\* step 1 without the min_results test: the search always widens
DirectSearchAlwaysWidens ==
    /\ fpc = "direct"
    /\ \E outcome \in Outcomes(fCall.query, fCall.top_k * 2) :
          LET results == Accumulate(all_results, seen_docs, outcome.hits, "direct")
          IN /\ all_results' = results
             /\ seen_docs' = seen_docs \cup Range(outcome.hits)
             /\ fLog' = Append(fLog, LogEntry("direct", fCall.query, fCall.top_k * 2,
                                              outcome, Len(results)))
             /\ AfterDirect(results)
    /\ UNCHANGED fCall

\* step 1: the direct search, with limit top_k * 2
DirectSearch ==
    /\ fpc = "direct"
    /\ \E outcome \in Outcomes(fCall.query, fCall.top_k * 2) :
          LET results == Accumulate(all_results, seen_docs, outcome.hits, "direct")
          IN /\ all_results' = results
             /\ seen_docs' = seen_docs \cup Range(outcome.hits)
             /\ fLog' = Append(fLog, LogEntry("direct", fCall.query, fCall.top_k * 2,
                                              outcome, Len(results)))
             /\ IF ~outcome.raised /\ Len(results) >= fCall.min_results
                THEN Return(results)
                ELSE AfterDirect(results)
    /\ UNCHANGED fCall

\* step 2: the search of one preprocessed query, with limit top_k
PreprocessedSearch ==
    /\ fpc = "preprocessed"
    /\ \E outcome \in Outcomes(Head(fQueue), fCall.top_k) :
          LET results == Accumulate(all_results, seen_docs, outcome.hits, "preprocessed")
          IN /\ all_results' = results
             /\ seen_docs' = seen_docs \cup Range(outcome.hits)
             /\ fLog' = Append(fLog, LogEntry("preprocessed", Head(fQueue), fCall.top_k,
                                              outcome, Len(results)))
             /\ IF ~outcome.raised /\ Len(results) >= fCall.min_results
                THEN Return(results)
                ELSE IF Tail(fQueue) # <<>>
                     THEN /\ fQueue' = Tail(fQueue)
                          /\ UNCHANGED <<fpc, fReturn>>
                     ELSE AfterPreprocessed(results)
    /\ UNCHANGED fCall

\* step 3: the search of one part, with limit top_k // len(split_parts) + 1
SplitSearch ==
    /\ fpc = "split"
    /\ LET limit == (fCall.top_k \div Len(SplitParts)) + 1
       IN \E outcome \in Outcomes(Head(fQueue), limit) :
          LET results == Accumulate(all_results, seen_docs, outcome.hits, "split")
          IN /\ all_results' = results
             /\ seen_docs' = seen_docs \cup Range(outcome.hits)
             /\ fLog' = Append(fLog, LogEntry("split", Head(fQueue), limit, outcome,
                                              Len(results)))
             /\ IF Tail(fQueue) # <<>>
                THEN /\ fQueue' = Tail(fQueue)
                     /\ UNCHANGED <<fpc, fReturn>>
                ELSE AfterParts(results)
    /\ UNCHANGED fCall

\* step 3, two parts: the search of the two parts joined, with limit top_k
CombinedSearch ==
    /\ fpc = "combined"
    /\ \E outcome \in Outcomes(Head(fQueue), fCall.top_k) :
          LET results == Accumulate(all_results, seen_docs, outcome.hits, "fallback")
          IN /\ all_results' = results
             /\ seen_docs' = seen_docs \cup Range(outcome.hits)
             /\ fLog' = Append(fLog, LogEntry("fallback", Head(fQueue), fCall.top_k,
                                              outcome, Len(results)))
             /\ Return(results)
    /\ UNCHANGED fCall

\* the number of variations search_with_variations asks for
VariationsWanted == 3

\* search_with_variations is called
StartVariations(query, top_k, engine, terms, score) ==
    /\ fpc = "idle"
    /\ fpc' = "variation"
    /\ fCall' = [kind |-> "variations", query |-> query, top_k |-> top_k,
                 min_results |-> 0, engine |-> engine, terms |-> terms, score |-> score,
                 parts_match |-> FALSE]
    /\ fQueue' = GetQueryVariations(query, VariationsWanted, terms)
    /\ UNCHANGED <<all_results, seen_docs, fLog, fReturn>>

\* search_with_variations: the search of one variation, with limit top_k; a
\* new document's score is multiplied by the variation's weight
VariationSearch ==
    /\ fpc = "variation"
    /\ LET variation == Head(fQueue)
       IN \E outcome \in Outcomes(variation.query, fCall.top_k) :
          LET results == AccumulateWeighted(all_results, seen_docs, outcome.hits,
                                            variation)
          IN /\ all_results' = results
             /\ seen_docs' = seen_docs \cup Range(outcome.hits)
             /\ fLog' = Append(fLog, LogEntry(variation.type, variation.query, fCall.top_k,
                                              outcome, Len(results)))
             /\ IF Tail(fQueue) # <<>>
                THEN /\ fQueue' = Tail(fQueue)
                     /\ UNCHANGED <<fpc, fReturn>>
                ELSE Return(results)
    /\ UNCHANGED fCall

\* FallbackSearchEngine.__init__, before any call
InitFallback ==
    /\ fpc = "idle"
    /\ fCall = [kind |-> "none", query |-> <<>>, top_k |-> 1, min_results |-> 1,
                engine |-> FALSE, terms |-> <<>>, score |-> [d \in FDocs |-> 0],
                parts_match |-> FALSE]
    /\ all_results = <<>>
    /\ seen_docs = {}
    /\ fQueue = <<>>
    /\ fLog = <<>>
    /\ fReturn = <<>>

NextFallback ==
    \/ /\ fpc = "idle"
       /\ \E query \in FQueries, top_k \in 1..MaxTopK, min_results \in 0..MaxMinResults,
             engine \in BOOLEAN, terms \in Dictionaries, score \in [FDocs -> RawScores],
             parts_match \in BOOLEAN :
               StartFallback(query, top_k, min_results, engine, terms, score, parts_match)
       /\ UNCHANGED <<dbVars, sVars, mVars, cli, pre, tok, loader, cfg, gen>>
    \/ DirectSearch /\ UNCHANGED <<dbVars, sVars, mVars, cli, pre, tok, loader, cfg, gen>>
    \/ PreprocessedSearch /\ UNCHANGED <<dbVars, sVars, mVars, cli, pre, tok, loader, cfg, gen>>
    \/ SplitSearch /\ UNCHANGED <<dbVars, sVars, mVars, cli, pre, tok, loader, cfg, gen>>
    \/ CombinedSearch /\ UNCHANGED <<dbVars, sVars, mVars, cli, pre, tok, loader, cfg, gen>>
    \/ /\ fpc = "idle"
       /\ \E query \in FQueries, top_k \in 1..MaxTopK, engine \in BOOLEAN,
             terms \in Dictionaries, score \in [FDocs -> RawScores] :
               StartVariations(query, top_k, engine, terms, score)
       /\ UNCHANGED <<dbVars, sVars, mVars, cli, pre, tok, loader, cfg, gen>>
    \/ VariationSearch /\ UNCHANGED <<dbVars, sVars, mVars, cli, pre, tok, loader, cfg, gen>>

(***************************************************************************)
(* The search engine (rag/core/search.py)                                  *)
(***************************************************************************)
\* the largest top_k asked for
MaxSearchK == 2

\* the cap of hybrid_search on search_k
SearchKCap == 10

\* the bonus of _calculate_keyword_score for the whole phrase, in thousandths
PhraseBonus == 300

\* the documents of the collection the engine searches
SDocs == {"s1", "s2", "s3"}

SText(d) ==
    CASE d = "s1" -> <<"a", "b", " ", "c", "d">>
      [] d = "s2" -> <<"A", "B">>
      [] d = "s3" -> <<"c", "d">>
      [] OTHER -> <<"c", "d">>

SProject(d) == IF d = "s3" THEN "p2" ELSE "p1"

\* the distances the store can report between a query and a document, in
\* thousandths
Distances == {100, 400, 1200}

\* blank, a one-letter word, one keyword, two keywords in and out of order
SQueries ==
    { <<" ">>, <<"a">>, <<"a", "b">>, <<"a", "b", " ", "c", "d">>,
      <<"c", "d", " ", "a", "b">> }

\* alpha, in tenths
Alphas == {0, 5, 10}

Min(a, b) == IF a < b THEN a ELSE b

Max(a, b) == IF a > b THEN a ELSE b

\* the orders in which a set can be gone through
Orders(S) == {o \in [1..Cardinality(S) -> S] : \A i, j \in 1..Cardinality(S) : o[i] = o[j] => i = j}

\* what the store makes of the documents for one query: nearest first
Rankings ==
    {r \in [order : Orders(SDocs), dist : [SDocs -> Distances]] :
        \A i, j \in 1..Len(r.order) : i < j => r.dist[r.order[i]] <= r.dist[r.order[j]]}

\* combined_filters: filters or {}, project_id written over it
CombinedFilters(project_id, filters) == IF project_id # None THEN project_id ELSE filters

RECURSIVE Where(_, _)
\* the documents of a list that pass the where clause
Where(docs, project) ==
    IF docs = <<>> THEN <<>>
    ELSE IF project = None \/ SProject(docs[1]) = TheValue(project)
         THEN <<docs[1]>> \o Where(Tail(docs), project)
         ELSE Where(Tail(docs), project)

\* database.search(query, n_results, filters): documents[0], distances[0] and
\* ids[0] of the store's answer, position by position
DatabaseSearch(ranking, n_results, project) ==
    LET found == Take(Where(ranking.order, project), n_results)
    IN [i \in 1..Len(found) |->
          [id |-> found[i], text |-> SText(found[i]), distance |-> ranking.dist[found[i]]]]

\* str.lower()
Lower(s) ==
    [i \in 1..Len(s) |-> CASE s[i] = "A" -> "a" [] s[i] = "B" -> "b" [] OTHER -> s[i]]

RECURSIVE SplitWhitespace(_)
\* str.split()
SplitWhitespace(s) ==
    IF s = <<>> THEN <<>>
    ELSE IF s[1] = Space THEN SplitWhitespace(Tail(s))
         ELSE LET n == RunLen(s, {c \in Range(s) : c # Space})
              IN <<SubSeq(s, 1, n)>> \o SplitWhitespace(From(s, n + 1))

RECURSIVE LongerThanOne(_)
LongerThanOne(words) ==
    IF words = <<>> THEN <<>>
    ELSE IF Len(words[1]) > 1 THEN <<words[1]>> \o LongerThanOne(Tail(words))
         ELSE LongerThanOne(Tail(words))

\* _extract_keywords
ExtractKeywords(query) == LongerThanOne(SplitWhitespace(query))

\* _contains_keywords
ContainsKeywords(text, keywords) ==
    \E i \in 1..Len(keywords) : Contains(Lower(text), Lower(keywords[i]))

\* _calculate_keyword_score, in thousandths
CalculateKeywordScore(text, keywords) ==
    IF keywords = <<>> THEN 0
    ELSE LET matches == Cardinality({i \in 1..Len(keywords) :
                                        Contains(Lower(text), Lower(keywords[i]))})
             score == (matches * 1000) \div Len(keywords)
         IN IF Contains(Lower(text), Lower(Join(keywords)))
            THEN Min(1000, score + PhraseBonus)
            ELSE score

RECURSIVE KeepWithKeywords(_, _)
\* the loop of _filter_by_keywords
KeepWithKeywords(chroma, keywords) ==
    IF chroma = <<>> THEN <<>>
    ELSE IF ContainsKeywords(chroma[1].text, keywords)
         THEN <<[chroma[1] EXCEPT
                    !.distance = 1000 - CalculateKeywordScore(chroma[1].text, keywords)]>>
              \o KeepWithKeywords(Tail(chroma), keywords)
         ELSE KeepWithKeywords(Tail(chroma), keywords)

\* _filter_by_keywords
FilterByKeywords(chroma, query) ==
    IF chroma = <<>> \/ ExtractKeywords(query) = <<>> THEN chroma
    ELSE KeepWithKeywords(chroma, ExtractKeywords(query))

\* format_results without the max: score = 1 - distance
FormatResultsUnclamped(chroma) ==
    [i \in 1..Len(chroma) |->
        [id |-> chroma[i].id, text |-> chroma[i].text,
         score |-> 1000 - chroma[i].distance, rank |-> i]]

\* format_results: the list under "results"
FormatResults(chroma) ==
    [i \in 1..Len(chroma) |->
        [id |-> chroma[i].id, text |-> chroma[i].text,
         score |-> Max(0, 1000 - chroma[i].distance), rank |-> i]]

\* vector_search past its query test: the list under "results"
VectorResults(ranking, top_k, project) == FormatResults(DatabaseSearch(ranking, top_k, project))

\* keyword_search past its query test: the list under "results"
KeywordResults(query, ranking, top_k, project) ==
    Take(FormatResults(FilterByKeywords(DatabaseSearch(ranking, top_k * 2, project), query)),
         top_k)

\* dict.get(doc_id) on {result["id"]: result for result in results}
Lookup(results, doc_id) == {results[i] : i \in {j \in 1..Len(results) : results[j].id = doc_id}}

\* _calculate_hybrid_score with the two weights exchanged
CalculateHybridScoreSwapped(vector_score, keyword_score, alpha) ==
    (alpha * vector_score + (10 - alpha) * keyword_score) \div 10

\* _calculate_hybrid_score: alpha * keyword_score + (1.0 - alpha) * vector_score
CalculateHybridScore(vector_score, keyword_score, alpha) ==
    (alpha * keyword_score + (10 - alpha) * vector_score) \div 10

\* all_ids of _combine_search_results
AllIds(vector_results, keyword_results) ==
    {vector_results[i].id : i \in 1..Len(vector_results)}
        \cup {keyword_results[i].id : i \in 1..Len(keyword_results)}

\* _combine_search_results, the set all_ids gone through in the given order:
\* the vector result if there is one, else the keyword result, with its score
\* replaced and the two scores added
CombineSearchResults(vector_results, keyword_results, alpha, order) ==
    [i \in 1..Len(order) |->
        LET vector_result == Lookup(vector_results, order[i])
            keyword_result == Lookup(keyword_results, order[i])
            vector_score == IF vector_result # None THEN TheValue(vector_result).score ELSE 0
            keyword_score == IF keyword_result # None THEN TheValue(keyword_result).score ELSE 0
            base_result == IF vector_result # None THEN TheValue(vector_result)
                           ELSE TheValue(keyword_result)
        IN [id |-> base_result.id, text |-> base_result.text, rank |-> base_result.rank,
            score |-> CalculateHybridScore(vector_score, keyword_score, alpha),
            vector_score |-> vector_score, keyword_score |-> keyword_score]]

\* what a call returns
Found(op, results) ==
    [op |-> op, status |-> "ok", results |-> results, total_found |-> Len(results)]

\* what a call raises
Failed(op, status) == [op |-> op, status |-> status, results |-> <<>>, total_found |-> 0]

Call(op, query, alpha, top_k, project_id, filters, ranking) ==
    [op |-> op, query |-> query, alpha |-> alpha, top_k |-> top_k,
     project_id |-> project_id, filters |-> filters, ranking |-> ranking]

\* The engine keeps nothing from one call to the next, so a behaviour is one
\* call on a fresh engine.
\* vector_search; store_fails: database.search raises
VectorSearch(query, top_k, project_id, filters, ranking, store_fails) ==
    /\ sCall.op = "init"
    /\ sCall' = Call("vector_search", query, 0, top_k, project_id, filters, ranking)
    /\ sResult' =
          IF query = <<>> \/ IsBlank(query) THEN Failed("vector_search", "value_error")
          ELSE IF store_fails THEN Failed("vector_search", "store_error")
          ELSE Found("vector_search",
                     VectorResults(ranking, top_k, CombinedFilters(project_id, filters)))

\* keyword_search
KeywordSearch(query, top_k, project_id, filters, ranking, store_fails) ==
    /\ sCall.op = "init"
    /\ sCall' = Call("keyword_search", query, 0, top_k, project_id, filters, ranking)
    /\ sResult' =
          IF query = <<>> \/ IsBlank(query) THEN Failed("keyword_search", "value_error")
          ELSE IF store_fails THEN Failed("keyword_search", "store_error")
          ELSE Found("keyword_search",
                     KeywordResults(query, ranking, top_k,
                                    CombinedFilters(project_id, filters)))

\* hybrid_search; store_fails: database.search raises in one of the two searches
HybridSearch(query, alpha, top_k, project_id, filters, ranking, store_fails) ==
    /\ sCall.op = "init"
    /\ sCall' = Call("hybrid_search", query, alpha, top_k, project_id, filters, ranking)
    /\ IF query = <<>> \/ IsBlank(query)
       THEN sResult' = Failed("hybrid_search", "value_error")
       ELSE IF store_fails THEN sResult' = Failed("hybrid_search", "store_error")
       ELSE LET search_k == Min(top_k * 2, SearchKCap)
                project == CombinedFilters(project_id, filters)
                vector_results == VectorResults(ranking, search_k, project)
                keyword_results == KeywordResults(query, ranking, search_k, project)
            IN \E order \in Orders(AllIds(vector_results, keyword_results)) :
                  sResult' =
                     Found("hybrid_search",
                           Take(SortByScore(CombineSearchResults(vector_results,
                                                keyword_results, alpha, order), <<>>),
                                top_k))

\* the bundles format_results can be handed: the documents in any order, at
\* any distances
Bundles == [order : Orders(SDocs), dist : [SDocs -> Distances]]

\* format_results called on the first n entries of a bundle
FormatResultsCall(bundle, n) ==
    /\ sCall.op = "init"
    /\ sCall' = Call("format_results", <<>>, 0, n, None, None, bundle)
    /\ sResult' = Found("format_results", FormatResults(DatabaseSearch(bundle, n, None)))

\* a store of one document more than the cap on search_k, all equally near
LargeStoreOrder == [i \in 1..(SearchKCap + 1) |-> <<"w", i>>]

LargeStore == [order |-> LargeStoreOrder, dist |-> [d \in Range(LargeStoreOrder) |-> 100]]

\* the ids of two result lists, those of the first and then the rest
IdsInTurn(vector_results, keyword_results) ==
    Ids(vector_results)
        \o SelectSeq(Ids(keyword_results), LAMBDA id : Lookup(vector_results, id) = None)

\* hybrid_search on the large store, with top_k at the cap and above it; the
\* set all_ids is gone through in one order, the scores being what they are
\* in any
HybridSearchLargeStore(query, alpha, top_k) ==
    /\ sCall.op = "init"
    /\ sCall' = Call("hybrid_search", query, alpha, top_k, None, None, LargeStore)
    /\ LET search_k == Min(top_k * 2, SearchKCap)
           vector_results == VectorResults(LargeStore, search_k, None)
           keyword_results == KeywordResults(query, LargeStore, search_k, None)
       IN sResult' =
             Found("hybrid_search",
                   Take(SortByScore(CombineSearchResults(vector_results, keyword_results,
                            alpha, IdsInTurn(vector_results, keyword_results)), <<>>),
                        top_k))

\* SearchEngine.__init__, before any call
InitSearch ==
    /\ sCall = Call("init", <<>>, 0, 1, None, None,
                    CHOOSE r \in Rankings : TRUE)
    /\ sResult = Found("init", <<>>)

NextSearch ==
    \/ /\ sCall.op = "init"
       /\ \E query \in SQueries, top_k \in 1..MaxSearchK, project_id \in {None, Some("p1")},
             filters \in {None, Some("p2")}, ranking \in Rankings, store_fails \in BOOLEAN :
               VectorSearch(query, top_k, project_id, filters, ranking, store_fails)
       /\ UNCHANGED <<dbVars, fVars, mVars, cli, pre, tok, loader, cfg, gen>>
    \/ /\ sCall.op = "init"
       /\ \E query \in SQueries, top_k \in 1..MaxSearchK, project_id \in {None, Some("p1")},
             filters \in {None, Some("p2")}, ranking \in Rankings, store_fails \in BOOLEAN :
               KeywordSearch(query, top_k, project_id, filters, ranking, store_fails)
       /\ UNCHANGED <<dbVars, fVars, mVars, cli, pre, tok, loader, cfg, gen>>
    \/ /\ sCall.op = "init"
       /\ \E query \in SQueries, alpha \in Alphas, top_k \in 1..MaxSearchK,
             project_id \in {None, Some("p1")}, filters \in {None, Some("p2")},
             ranking \in Rankings, store_fails \in BOOLEAN :
               HybridSearch(query, alpha, top_k, project_id, filters, ranking, store_fails)
       /\ UNCHANGED <<dbVars, fVars, mVars, cli, pre, tok, loader, cfg, gen>>
    \/ /\ sCall.op = "init"
       /\ \E bundle \in Bundles, n \in 0..Cardinality(SDocs) : FormatResultsCall(bundle, n)
       /\ UNCHANGED <<dbVars, fVars, mVars, cli, pre, tok, loader, cfg, gen>>
    \/ /\ sCall.op = "init"
       /\ \E query \in {q \in SQueries : ~IsBlank(q)}, alpha \in Alphas,
             top_k \in {SearchKCap, SearchKCap + 1} :
                HybridSearchLargeStore(query, alpha, top_k)
       /\ UNCHANGED <<dbVars, fVars, mVars, cli, pre, tok, loader, cfg, gen>>

(***************************************************************************)
(* The MCP server (rag/mcp/server.py)                                      *)
(*                                                                         *)
(* Tool invocations are tasks of one event loop.  A task holds the loop    *)
(* from the step that starts it until a step that suspends or returns;     *)
(* the transport hands in a new invocation only while no task holds the    *)
(* loop.  A failure of the store, the loader, the vectorizer or the search *)
(* engine is a choice the step makes.                                      *)
(***************************************************************************)
MaxCalls == 2

MaxBatch == 2

Calls == 1..MaxCalls

ToolNames == {"rag_search", "rag_index", "rag_suggest", "rag_stats"}

McpQueries == {"q1", "q2"}

SearchTypes == {"vector", "keyword", "hybrid", "bogus"}

\* what call_tool is handed: a tool name and arguments; bind says whether the
\* arguments fit the parameters of the tool's handler
Invocation(name, bind, query, search_type, path, ndocs) ==
    [name |-> name, bind |-> bind, query |-> query, search_type |-> search_type,
     path |-> path, ndocs |-> ndocs]

Invocations ==
    {Invocation("rag_search", TRUE, q, st, "", 0) : q \in McpQueries, st \in SearchTypes}
    \cup {Invocation("rag_index", TRUE, "", "", "missing", 0),
          Invocation("rag_index", TRUE, "", "", "file", 1)}
    \cup {Invocation("rag_index", TRUE, "", "", "dir", n) : n \in 0..MaxBatch}
    \cup {Invocation("rag_suggest", TRUE, q, "", "", 0) : q \in McpQueries}
    \cup {Invocation("rag_stats", TRUE, "", "", "", 0)}
    \cup {Invocation(name, FALSE, "", "", "", 0) : name \in ToolNames}
    \cup {Invocation("rag_delete", TRUE, "", "", "", 0)}

\* TextContent(type="text", text=...): the text is kept as what it reports
TextContent(kind, query, n, of) ==
    [type |-> "text", text |-> [kind |-> kind, query |-> query, n |-> n, of |-> of]]

Response(blocks) == [status |-> "returned", blocks |-> blocks]

Propagated(exception) == [status |-> "raised", blocks |-> <<>>, exception |-> exception]

NoResponse == [status |-> "none", blocks |-> <<>>]

\* a call_tool that lets the exception through
CallToolReraise(exception) == Propagated(exception)

\* call_tool, except Exception: one "Error: ..." text block
CallToolExcept(exception) == Response(<<TextContent("Error", exception, 0, 0)>>)

Task(inv, pc, processed, indexed, partial, response) ==
    [inv |-> inv, pc |-> pc, processed |-> processed, indexed |-> indexed,
     partial |-> partial, response |-> response]

NoInvocation == Invocation("", FALSE, "", "", "", 0)

NoTask == Task(NoInvocation, "absent", 0, 0, FALSE, NoResponse)

InProgress(t) == mcpTasks[t].pc \in {"handler", "adding"}

\* some rag_index has added a part of its documents and not the rest
BatchHalfApplied ==
    \E u \in Calls : /\ mcpTasks[u].pc = "adding"
                     /\ mcpTasks[u].processed > 0
                     /\ mcpTasks[u].processed < mcpTasks[u].inv.ndocs

\* the transport reads a request and creates the task that will run call_tool
Submit(t, inv) ==
    /\ mcpCurrent = None
    /\ mcpTasks[t].pc = "absent"
    /\ \A u \in Calls : u < t => mcpTasks[u].pc # "absent"
    /\ mcpTasks' = [mcpTasks EXCEPT ![t] = Task(inv, "pending", 0, 0, FALSE, NoResponse)]
    /\ UNCHANGED <<mcpCurrent, mcpStore>>

\* the task returns: it gives up the loop
Finish(t, response) ==
    /\ mcpTasks' = [mcpTasks EXCEPT ![t].pc = "done", ![t].response = response]
    /\ mcpCurrent' = None

\* a rag_index that awaits between two documents
AfterAddYields(t) == None

\* the loop of rag_index has no await: the task keeps the event loop
AfterAdd(t) == Some(t)

\* call_tool up to the first statement of the handler
CallTool(t) ==
    LET inv == mcpTasks[t].inv IN
    /\ mcpCurrent = None
    /\ mcpTasks[t].pc = "pending"
    /\ UNCHANGED mcpStore
    /\ IF inv.name \notin ToolNames
       THEN Finish(t, CallToolExcept("Unknown tool"))
       ELSE IF ~inv.bind
       THEN Finish(t, CallToolExcept("TypeError"))
       ELSE /\ mcpTasks' = [mcpTasks EXCEPT ![t].pc = "handler"]
            /\ mcpCurrent' = Some(t)

\* rag_search: one search of the engine, formatted, or "Search failed: ..."
RagSearch(t) ==
    LET inv == mcpTasks[t].inv IN
    /\ mcpCurrent \subseteq {t}
    /\ mcpTasks[t].pc = "handler"
    /\ inv.name = "rag_search"
    /\ UNCHANGED mcpStore
    /\ IF inv.search_type = "bogus"
       THEN Finish(t, Response(<<TextContent("Search failed", "Invalid search type", 0, 0)>>))
       ELSE \/ Finish(t, Response(<<TextContent("Search failed", "engine", 0, 0)>>))
            \/ \E found \in 0..Len(mcpStore) :
                  /\ mcpTasks' = [mcpTasks EXCEPT
                        ![t].pc = "done",
                        ![t].partial = BatchHalfApplied,
                        ![t].response =
                            Response(<<TextContent(IF found = 0 THEN "No results found"
                                                                ELSE "Search Results",
                                                   inv.query, found, Len(mcpStore))>>)]
                  /\ mcpCurrent' = None

\* rag_index up to the loop over the loaded documents
RagIndexLoad(t) ==
    LET inv == mcpTasks[t].inv IN
    /\ mcpCurrent \subseteq {t}
    /\ mcpTasks[t].pc = "handler"
    /\ inv.name = "rag_index"
    /\ UNCHANGED mcpStore
    /\ IF inv.path = "missing"
       THEN Finish(t, Response(<<TextContent("Error", "Path does not exist", 0, 0)>>))
       ELSE \/ Finish(t, Response(<<TextContent("Indexing failed", "loader", 0, 0)>>))
            \/ IF inv.ndocs = 0
               THEN Finish(t, Response(<<TextContent("No documents found to index", "", 0, 0)>>))
               ELSE /\ mcpTasks' = [mcpTasks EXCEPT ![t].pc = "adding"]
                    /\ UNCHANGED mcpCurrent

\* one round of the loop: add_document stores the document or raises, and
\* after the last round the count is reported
RagIndexAdd(t) ==
    LET inv == mcpTasks[t].inv
        task == mcpTasks[t] IN
    /\ mcpCurrent \subseteq {t}
    /\ task.pc = "adding"
    /\ \E added \in BOOLEAN :
          LET indexed == task.indexed + (IF added THEN 1 ELSE 0) IN
          /\ mcpStore' = IF added THEN Append(mcpStore, t) ELSE mcpStore
          /\ IF task.processed + 1 = inv.ndocs
             THEN /\ mcpTasks' = [mcpTasks EXCEPT
                        ![t].pc = "done",
                        ![t].processed = inv.ndocs,
                        ![t].indexed = indexed,
                        ![t].response =
                            Response(<<TextContent(IF indexed = inv.ndocs
                                                   THEN "Successfully indexed"
                                                   ELSE "Successfully indexed, Errors",
                                                   "", indexed, inv.ndocs)>>)]
                  /\ mcpCurrent' = None
             ELSE /\ mcpTasks' = [mcpTasks EXCEPT ![t].processed = task.processed + 1,
                                                  ![t].indexed = indexed]
                  /\ mcpCurrent' = AfterAdd(t)

\* rag_suggest: the suggestions, "No suggestions found" or the failure
RagSuggest(t) ==
    LET inv == mcpTasks[t].inv IN
    /\ mcpCurrent \subseteq {t}
    /\ mcpTasks[t].pc = "handler"
    /\ inv.name = "rag_suggest"
    /\ UNCHANGED mcpStore
    /\ \/ Finish(t, Response(<<TextContent("Suggestion generation failed", "engine", 0, 0)>>))
       \/ Finish(t, Response(<<TextContent("No suggestions found", "", 0, 0)>>))
       \/ Finish(t, Response(<<TextContent("Query suggestions", inv.query, 1, 0)>>))

\* rag_stats: the statistics or the failure
RagStats(t) ==
    LET inv == mcpTasks[t].inv IN
    /\ mcpCurrent \subseteq {t}
    /\ mcpTasks[t].pc = "handler"
    /\ inv.name = "rag_stats"
    /\ UNCHANGED mcpStore
    /\ \/ Finish(t, Response(<<TextContent("Statistics retrieval failed", "engine", 0, 0)>>))
       \/ /\ mcpTasks' = [mcpTasks EXCEPT
                ![t].pc = "done",
                ![t].partial = BatchHalfApplied,
                ![t].response = Response(<<TextContent("RAG System Statistics", "",
                                                       Len(mcpStore), Len(mcpStore))>>)]
          /\ mcpCurrent' = None

InitMcp ==
    /\ mcpTasks = [t \in Calls |-> NoTask]
    /\ mcpCurrent = None
    /\ mcpStore = <<>>

NextMcp ==
    \/ /\ mcpCurrent = None
       /\ \E t \in Calls, inv \in Invocations : Submit(t, inv)
       /\ UNCHANGED <<dbVars, fVars, sVars, cli, pre, tok, loader, cfg, gen>>
    \/ \E t \in Calls : CallTool(t) /\ UNCHANGED <<dbVars, fVars, sVars, cli, pre, tok, loader, cfg, gen>>
    \/ \E t \in Calls : RagSearch(t) /\ UNCHANGED <<dbVars, fVars, sVars, cli, pre, tok, loader, cfg, gen>>
    \/ \E t \in Calls : RagIndexLoad(t) /\ UNCHANGED <<dbVars, fVars, sVars, cli, pre, tok, loader, cfg, gen>>
    \/ \E t \in Calls : RagIndexAdd(t) /\ UNCHANGED <<dbVars, fVars, sVars, cli, pre, tok, loader, cfg, gen>>
    \/ \E t \in Calls : RagSuggest(t) /\ UNCHANGED <<dbVars, fVars, sVars, cli, pre, tok, loader, cfg, gen>>
    \/ \E t \in Calls : RagStats(t) /\ UNCHANGED <<dbVars, fVars, sVars, cli, pre, tok, loader, cfg, gen>>

(***************************************************************************)
(* The command line: rag/cli/main.py                                       *)
(*                                                                         *)
(* A command is a process of its own: it opens a DatabaseManager on the    *)
(* store path, so it reads the documents of store and leaves the other     *)
(* manager's collection handle alone.  One command runs per behaviour.     *)
(***************************************************************************)
\* --project: not given, given empty, or a project id
CliProjects == {None} \cup {Some(p) : p \in Projects \cup {""}}

\* --limit
CliLimits == 1..MaxDocs

\* a listing that fetches every document before it filters
FetchedEverything(limit) == store

\* list_documents(limit) of the command's own manager: collection.get(limit)
FetchedWindow(limit) ==
    IF limit >= Len(store) THEN store ELSE SubSeq(store, 1, limit)

RECURSIVE OfProject(_, _)
\* [doc for doc in docs if doc.get('metadata', {}).get('project_id') == project]
OfProject(docs, project) ==
    IF docs = <<>> THEN <<>>
    ELSE IF docs[1].metadata.project_id = project
         THEN <<docs[1]>> \o OfProject(Tail(docs), project)
         ELSE OfProject(Tail(docs), project)

\* if project: docs = [...]: an empty project is no project
Filtered(docs, project) ==
    IF project # None /\ TheValue(project) # "" THEN OfProject(docs, TheValue(project))
    ELSE docs

CliCommand(op, project, limit, status, rows) ==
    [op |-> op, project |-> project, limit |-> limit, status |-> status, rows |-> rows]

\* documents: the rows of the table, "No documents found" when there is
\* none, or the error exit when the manager, the collection or the listing fails
Documents(project, limit) ==
    /\ cli.op = "init"
    /\ \/ cli' = CliCommand("documents", project, limit, "exit_1", <<>>)
       \/ LET docs == Filtered(FetchedWindow(limit), project) IN
          cli' = CliCommand("documents", project, limit,
                            IF docs = <<>> THEN "no_documents" ELSE "table", docs)
    /\ UNCHANGED dbVars

InitCli == cli = CliCommand("init", None, 0, "none", <<>>)

\* the store is filled through the manager; then one command is given
NextCli ==
    \/ /\ cli.op = "init"
       /\ CreateCollection
       /\ UNCHANGED <<fVars, sVars, mVars, cli, pre, tok, loader, cfg, gen>>
    \/ /\ cli.op = "init"
       /\ \E text \in DbTexts, metadata \in OptMetas, doc_id \in OptIds :
             AddDocument(text, metadata, doc_id)
       /\ UNCHANGED <<fVars, sVars, mVars, cli, pre, tok, loader, cfg, gen>>
    \/ /\ cli.op = "init"
       /\ \E project \in CliProjects, limit \in CliLimits : Documents(project, limit)
       /\ UNCHANGED <<fVars, sVars, mVars, pre, tok, loader, cfg, gen>>

(***************************************************************************)
(* Calls of the query preprocessor on its own                              *)
(*                                                                         *)
(* One call per behaviour, on every query of up to MaxQueryLen characters  *)
(* and on each of the dictionaries below.                                  *)
(***************************************************************************)
MaxQueryLen == 3

MaxVariations == 10

PreChars == {"a", "b", "J1", "J2", Space, "!"}

RECURSIVE Strings(_)
Strings(n) ==
    IF n = 0 THEN {<<>>}
    ELSE LET shorter == Strings(n - 1)
         IN shorter \cup {Append(q, c) : q \in {x \in shorter : Len(x) = n - 1}, c \in PreChars}

PreQueries == Strings(MaxQueryLen)

\* a dictionary whose term joins Latin and kana, and one whose term has ten
\* synonyms
MixedDictionary ==
    << Term(<<"a", "J1">>, Some(<< <<"a">>, <<"J1">> >>), Some(<< <<"b">> >>)) >>

ManySynonyms ==
    << Term(<<"b">>, None,
            Some(<< <<"a">>, <<"1">>, <<"J1">>, <<"J2">>, <<"!">>, <<"a", "a">>,
                    <<"a", "1">>, <<"1", "1">>, <<"1", "a">>, <<"a", "J1">> >>)) >>

PreDictionaries == Dictionaries \cup {MixedDictionary, ManySynonyms}

PreCall(op, query, terms, max_variations, queries, variations) ==
    [op |-> op, query |-> query, terms |-> terms, max_variations |-> max_variations,
     queries |-> queries, variations |-> variations]

PreprocessCall(query, terms) ==
    /\ pre.op = "init"
    /\ pre' = PreCall("preprocess", query, terms, 0, Preprocess(query, terms), <<>>)

SplitQueryCall(query, terms) ==
    /\ pre.op = "init"
    /\ pre' = PreCall("split_query", query, terms, 0, SplitQuery(query, terms), <<>>)

GetQueryVariationsCall(query, max_variations, terms) ==
    /\ pre.op = "init"
    /\ pre' = PreCall("get_query_variations", query, terms, max_variations, <<>>,
                      GetQueryVariations(query, max_variations, terms))

InitPre == pre = PreCall("init", <<>>, <<>>, 0, <<>>, <<>>)

NextPre ==
    \/ /\ pre.op = "init"
       /\ \E query \in PreQueries, terms \in PreDictionaries : PreprocessCall(query, terms)
       /\ UNCHANGED <<dbVars, fVars, sVars, mVars, cli, tok, loader, cfg, gen>>
    \/ /\ pre.op = "init"
       /\ \E query \in PreQueries, terms \in PreDictionaries : SplitQueryCall(query, terms)
       /\ UNCHANGED <<dbVars, fVars, sVars, mVars, cli, tok, loader, cfg, gen>>
    \/ /\ pre.op = "init"
       /\ \E query \in PreQueries, terms \in PreDictionaries,
             max_variations \in 1..MaxVariations :
                GetQueryVariationsCall(query, max_variations, terms)
       /\ UNCHANGED <<dbVars, fVars, sVars, mVars, cli, tok, loader, cfg, gen>>

(***************************************************************************)
(* The Japanese analyzer: src/japanese_analyzer.py                         *)
(*                                                                         *)
(* The characters of the model: an ASCII letter, a symbol, a kanji, a      *)
(* katakana, hiragana from U+3072 on (which the pattern [ひ-ゞ] matches),  *)
(* hiragana before U+3072 (which it does not), and the space.              *)
(***************************************************************************)
MaxTextLen == 4

AsciiAlnum == {"a"}

Kanji == {"K"}

Katakana == {"T"}

\* ら and ま: in [ひ-ゞ]
HiraganaMatched == {"ra", "ma"}

\* か and で: hiragana below ひ, outside [ひ-ゞ]
HiraganaUnmatched == {"ka", "de"}

AnalyzerChars ==
    AsciiAlnum \cup Kanji \cup Katakana \cup HiraganaMatched \cup HiraganaUnmatched
        \cup {".", Space}

\* the particle set, cut down: か, から, で, まで
Particles == { <<"ka">>, <<"ka", "ra">>, <<"de">>, <<"ma", "de">> }

\* the technical terms, cut down: one of letters and a symbol (Vue.js), one
\* of kanji (認証) and a longer one that begins with it (セブン銀行 is mixed too)
TechnicalTerms == { <<"a", ".", "a">>, <<"K", "K">>, <<"K", "K", "T">> }

\* text[start:start + len(t)] == t, on the text from start on
StartsWith(rest, t) == Len(t) <= Len(rest) /\ SubSeq(rest, 1, Len(t)) = t

\* the longest of a set of strings no two of which have the same length
Longest(S) == CHOOSE t \in S : \A u \in S : Len(u) <= Len(t)

\* _find_longest_technical_term
FindLongestTechnicalTerm(rest) ==
    LET matches == {t \in TechnicalTerms : StartsWith(rest, t) /\ Len(t) > 0}
    IN IF matches = {} THEN None ELSE Some(Longest(matches))

\* _extract_kanji_compound
ExtractKanjiCompound(rest) == SubSeq(rest, 1, RunLen(rest, Kanji))

\* _extract_hiragana_token: the first particle, longest first, that the text
\* starts with, else the run the pattern matches
ExtractHiraganaToken(rest) ==
    LET matches == {p \in Particles : StartsWith(rest, p)}
    IN IF matches # {} THEN Longest(matches)
       ELSE SubSeq(rest, 1, RunLen(rest, HiraganaMatched))

\* a scan that drops every character no rule takes
SkippedAlways(c) == TRUE

\* text[i] in ' \t\n\r'
Skipped(c) == c = Space

Scan(rule, token, advance) == [rule |-> rule, token |-> token, advance |-> advance]

\* one round of the loop of tokenize on the text from position i on
ScanAt(rest) ==
    LET term == FindLongestTechnicalTerm(rest) IN
    IF term # None THEN Scan("technical_term", TheValue(term), Len(TheValue(term)))
    ELSE IF rest[1] \in AsciiAlnum
         THEN Scan("ascii", SubSeq(rest, 1, RunLen(rest, AsciiAlnum)), RunLen(rest, AsciiAlnum))
    ELSE IF rest[1] \in Kanji
         THEN Scan("kanji", ExtractKanjiCompound(rest), Len(ExtractKanjiCompound(rest)))
    ELSE IF rest[1] \in Katakana
         THEN Scan("katakana", SubSeq(rest, 1, RunLen(rest, Katakana)), RunLen(rest, Katakana))
    ELSE IF rest[1] \in HiraganaMatched
         THEN Scan("hiragana", ExtractHiraganaToken(rest), Len(ExtractHiraganaToken(rest)))
    ELSE IF ~Skipped(rest[1]) THEN Scan("symbol", <<rest[1]>>, 1)
    ELSE Scan("skip", <<>>, 1)

Tokenizing(pc, text, i, tokens) == [pc |-> pc, text |-> text, i |-> i, tokens |-> tokens]

AnalyzerTexts == UNION {[1..n -> AnalyzerChars] : n \in 0..MaxTextLen}

\* tokenize(text): tokens = [], i = 0
TokenizeCall(text) ==
    /\ tok.pc = "init"
    /\ tok' = Tokenizing("loop", text, 0, <<>>)

\* one round of while i < len(text); a token is kept with where it began and
\* the rule that made it
TokenizeLoop ==
    /\ tok.pc = "loop"
    /\ tok.i < Len(tok.text)
    /\ LET scan == ScanAt(From(tok.text, tok.i + 1))
       IN tok' = [tok EXCEPT
                    !.i = tok.i + scan.advance,
                    !.tokens = IF scan.rule = "skip" THEN tok.tokens
                               ELSE Append(tok.tokens,
                                           [at |-> tok.i, rule |-> scan.rule,
                                            token |-> scan.token])]

\* return tokens
TokenizeReturn ==
    /\ tok.pc = "loop"
    /\ tok.i >= Len(tok.text)
    /\ tok' = [tok EXCEPT !.pc = "done"]

InitAnalyzer == tok = Tokenizing("init", <<>>, 0, <<>>)

NextAnalyzer ==
    \/ /\ tok.pc = "init"
       /\ \E text \in AnalyzerTexts : TokenizeCall(text)
       /\ UNCHANGED <<dbVars, fVars, sVars, mVars, cli, pre, loader, cfg, gen>>
    \/ TokenizeLoop /\ UNCHANGED <<dbVars, fVars, sVars, mVars, cli, pre, loader, cfg, gen>>
    \/ TokenizeReturn /\ UNCHANGED <<dbVars, fVars, sVars, mVars, cli, pre, loader, cfg, gen>>

(***************************************************************************)
(* The document loader: rag/utils/document_loader.py, chunk_document       *)
(*                                                                         *)
(* The characters of the model: a letter, the space (whitespace, as the    *)
(* newlines of the default separator are) and a comma.                     *)
(***************************************************************************)
MaxContentLen == 5

MaxChunkSize == 3

LoaderChars == {"x", Space, ","}

Contents == UNION {[1..n -> LoaderChars] : n \in 0..MaxContentLen}

\* a whitespace separator (the default is two newlines), a comma, and none
Separators == { <<Space, Space>>, <<",">>, <<>> }

RECURSIVE LStrip(_)
LStrip(s) == IF s # <<>> /\ s[1] = Space THEN LStrip(Tail(s)) ELSE s

RECURSIVE RStrip(_)
RStrip(s) == IF s # <<>> /\ s[Len(s)] = Space THEN RStrip(SubSeq(s, 1, Len(s) - 1)) ELSE s

\* str.strip()
Strip(s) == RStrip(LStrip(s))

RECURSIVE SplitOn(_, _, _)
\* content.split(separator) for a non-empty separator; head is the section
\* being read
SplitOn(s, separator, head) ==
    IF s = <<>> THEN <<head>>
    ELSE IF StartsWith(s, separator)
         THEN <<head>> \o SplitOn(From(s, Len(separator) + 1), separator, <<>>)
         ELSE SplitOn(Tail(s), separator, Append(head, s[1]))

\* current_chunk[-chunk_overlap:]
LastChars(s, n) == IF n >= Len(s) THEN s ELSE SubSeq(s, Len(s) - n + 1, Len(s))

RECURSIVE JoinedLen(_)
\* len("".join([c["text"] for c in chunks]))
JoinedLen(chunks) == IF chunks = <<>> THEN 0 ELSE Len(chunks[1].text) + JoinedLen(Tail(chunks))

Chunk(text, chunk_index, chunk_size, start_char, end_char) ==
    [text |-> text, chunk_index |-> chunk_index, chunk_size |-> chunk_size,
     start_char |-> start_char, end_char |-> end_char]

\* the chunk the loop appends: "".join(chunks) on the list of chunks raises
\* TypeError unless the list is empty
FinalizeInLoop(st) ==
    IF IsBlank(st.current_chunk) THEN st
    ELSE IF st.chunks # <<>> THEN [st EXCEPT !.raised = TRUE]
    ELSE [st EXCEPT
            !.chunks = Append(st.chunks,
                              Chunk(Strip(st.current_chunk), st.chunk_index,
                                    Len(st.current_chunk), 0, Len(st.current_chunk))),
            !.chunk_index = st.chunk_index + 1]

RECURSIVE ChunkSections(_, _, _, _, _)
\* for section in sections
ChunkSections(sections, st, chunk_size, chunk_overlap, separator) ==
    IF sections = <<>> \/ st.raised THEN st
    ELSE LET section == sections[1]
             full == st.current_chunk # <<>>
                        /\ Len(st.current_chunk) + Len(section) > chunk_size
             finalized == FinalizeInLoop(st)
             next ==
                IF full
                THEN [finalized EXCEPT !.current_chunk =
                        IF chunk_overlap > 0
                        THEN LastChars(st.current_chunk, chunk_overlap) \o section
                        ELSE section]
                ELSE [st EXCEPT !.current_chunk =
                        IF st.current_chunk # <<>>
                        THEN st.current_chunk \o separator \o section
                        ELSE section]
         IN ChunkSections(Tail(sections), next, chunk_size, chunk_overlap, separator)

Chunked(status, chunks) == [status |-> status, chunks |-> chunks]

\* chunk_document
ChunkDocument(content, chunk_size, chunk_overlap, separator) ==
    IF content = <<>> \/ IsBlank(content) THEN Chunked("ok", <<>>)
    ELSE IF separator = <<>> THEN Chunked("value_error", <<>>)
    ELSE LET st == ChunkSections(SplitOn(content, separator, <<>>),
                                 [current_chunk |-> <<>>, chunks |-> <<>>,
                                  chunk_index |-> 0, raised |-> FALSE],
                                 chunk_size, chunk_overlap, separator)
             start == JoinedLen(st.chunks) - chunk_overlap * st.chunk_index
         IN IF st.raised THEN Chunked("type_error", <<>>)
            ELSE IF IsBlank(st.current_chunk) THEN Chunked("ok", st.chunks)
            ELSE Chunked("ok",
                         Append(st.chunks,
                                Chunk(Strip(st.current_chunk), st.chunk_index,
                                      Len(st.current_chunk), Max(0, start),
                                      Len(st.current_chunk))))

ChunkCall(op, content, chunk_size, chunk_overlap, separator, result) ==
    [op |-> op, content |-> content, chunk_size |-> chunk_size,
     chunk_overlap |-> chunk_overlap, separator |-> separator, result |-> result]

ChunkDocumentCall(content, chunk_size, chunk_overlap, separator) ==
    /\ loader.op = "init"
    /\ loader' = ChunkCall("chunk_document", content, chunk_size, chunk_overlap, separator,
                           ChunkDocument(content, chunk_size, chunk_overlap, separator))

InitLoader == loader = ChunkCall("init", <<>>, 1, 0, <<>>, Chunked("ok", <<>>))

NextLoader ==
    /\ loader.op = "init"
    /\ \E content \in Contents, chunk_size \in 1..MaxChunkSize,
          chunk_overlap \in 0..MaxChunkSize, separator \in Separators :
             ChunkDocumentCall(content, chunk_size, chunk_overlap, separator)
    /\ UNCHANGED <<dbVars, fVars, sVars, mVars, cli, pre, tok, cfg, gen>>

(***************************************************************************)
(* The configuration manager: rag/utils/config.py                          *)
(*                                                                         *)
(* A dict is a function from its keys; a value is a scalar (its text) or   *)
(* a dict.                                                                 *)
(***************************************************************************)
EmptyDict == [key \in {} |-> ""]

Scalar(text) == [isdict |-> FALSE, scalar |-> text, dict |-> EmptyDict]

DictValue(d) == [isdict |-> TRUE, scalar |-> "", dict |-> d]

\* a dict written out as a set of <<key, value>> pairs
DictOf(pairs) == [key \in {kv[1] : kv \in pairs} |-> (CHOOSE kv \in pairs : kv[1] = key)[2]]

\* default_config
default_config ==
    DictOf({ <<"database", DictValue(DictOf({ <<"type", Scalar("chromadb")>>,
                                              <<"path", Scalar("~/.rag/chroma")>>,
                                              <<"collection_name", Scalar("documents")>> }))>>,
             <<"embedding", DictValue(DictOf({ <<"model", Scalar("sentence-transformers/multilingual-e5-base")>>,
                                               <<"batch_size", Scalar("32")>>,
                                               <<"device", Scalar("cpu")>> }))>>,
             <<"chunking", DictValue(DictOf({ <<"strategy", Scalar("fixed")>>,
                                              <<"chunk_size", Scalar("1000")>>,
                                              <<"chunk_overlap", Scalar("200")>>,
                                              <<"separator", Scalar("\n\n")>> }))>>,
             <<"search", DictValue(DictOf({ <<"default_top_k", Scalar("5")>>,
                                            <<"hybrid_alpha", Scalar("0.5")>> }))>>,
             <<"logging", DictValue(DictOf({ <<"level", Scalar("INFO")>>,
                                             <<"format", Scalar("%(asctime)s - %(name)s - %(levelname)s - %(message)s")>> }))>> })

\* dict.update: what _merge_configs would be without its recursion
MergeShallow(default, override) ==
    [key \in DOMAIN default \cup DOMAIN override |->
        IF key \in DOMAIN override THEN override[key] ELSE default[key]]

RECURSIVE MergeConfigs(_, _)
\* _merge_configs
MergeConfigs(default, override) ==
    [key \in DOMAIN default \cup DOMAIN override |->
        IF key \notin DOMAIN override THEN default[key]
        ELSE IF key \in DOMAIN default /\ default[key].isdict /\ override[key].isdict
             THEN DictValue(MergeConfigs(default[key].dict, override[key].dict))
             ELSE override[key]]

\* the dicts with keys among keys and values among values
DictsOver(keys, values) == UNION {[ks -> values] : ks \in SUBSET keys}

\* what a file gives below a section: a key of two defaults, each a scalar or
\* a dict
FileKeys == {"path", "hybrid_alpha"}

FileLeafValues ==
    {Scalar("file"), DictValue(EmptyDict), DictValue(DictOf({<<"nested", Scalar("file")>>}))}

\* the sections of a file: two of the defaults and one the defaults lack
FileSections == {"database", "search", "plugins"}

FileSectionValues == {Scalar("file")} \cup {DictValue(d) : d \in DictsOver(FileKeys, FileLeafValues)}

\* the mappings yaml.safe_load returns
FileConfigs == DictsOver(FileSections, FileSectionValues)

\* what is at config_path: nothing, an empty document, a mapping, a document
\* that is no mapping, or text that is no YAML
ConfigFile(kind, mapping) == [kind |-> kind, mapping |-> mapping]

ConfigFiles ==
    {ConfigFile(kind, EmptyDict) : kind \in {"missing", "empty", "sequence", "invalid"}}
        \cup {ConfigFile("mapping", m) : m \in FileConfigs}

Loaded(status, config) == [status |-> status, config |-> config]

\* _load_config
LoadConfig(file) ==
    CASE file.kind = "missing" -> Loaded("ok", default_config)
      [] file.kind = "invalid" -> Loaded("YAMLError", EmptyDict)
      [] file.kind = "empty" -> Loaded("ok", MergeConfigs(default_config, EmptyDict))
      [] file.kind = "sequence" -> Loaded("AttributeError", EmptyDict)
      [] OTHER -> Loaded("ok", MergeConfigs(default_config, file.mapping))

Construction(op, explicit, file, result) ==
    [op |-> op, explicit |-> explicit, file |-> file, result |-> result]

\* ConfigManager(config_path): explicit says a path was passed, file is what
\* is at the resolved path
ConfigManagerInit(explicit, file) ==
    /\ cfg.op = "init"
    /\ cfg' = Construction("ConfigManager", explicit, file, LoadConfig(file))

InitConfig == cfg = Construction("init", FALSE, ConfigFile("missing", EmptyDict), Loaded("ok", EmptyDict))

NextConfig ==
    /\ cfg.op = "init"
    /\ \E explicit \in BOOLEAN, file \in ConfigFiles : ConfigManagerInit(explicit, file)
    /\ UNCHANGED <<dbVars, fVars, sVars, mVars, cli, pre, tok, loader, gen>>

(***************************************************************************)
(* The dictionary generator: src/dictionary_generator.py                   *)
(***************************************************************************)
MaxTreeFiles == 2

MaxFrequency == 2

\* documents[:100]
MaxProjectFiles == 100

\* possible_queries, by position; the first two select two columns
possible_queries == 1..4

Null == None

\* what a query shape gives on the snapshot: sqlite3.Error (no such table or
\* column), or rows; a row is its columns, the first a text or NULL
QueryError == [error |-> TRUE, rows |-> <<>>]

Rows(rows) == [error |-> FALSE, rows |-> rows]

RowOf(query, text) == IF query <= 2 THEN <<text, Some("m")>> ELSE <<text>>

QueryOutcomes(query) ==
    {QueryError, Rows(<<>>), Rows(<<RowOf(query, Some("t"))>>), Rows(<<RowOf(query, Null)>>)}

\* what is at rag_db_path: nothing, a file that is no database, or a
\* database answering each query shape
Snapshot(kind, answers) == [kind |-> kind, answers |-> answers]

NoAnswers == [query \in possible_queries |-> QueryError]

\* the first two shapes read the same table, so they give as many rows
Answers ==
    {answers \in QueryOutcomes(1) \X QueryOutcomes(2) \X QueryOutcomes(3) \X QueryOutcomes(4) :
        (~answers[1].error /\ ~answers[2].error) => Len(answers[1].rows) = Len(answers[2].rows)}

Snapshots ==
    {Snapshot(kind, NoAnswers) : kind \in {"absent", "corrupt"}}
        \cup {Snapshot("database", [query \in possible_queries |-> answers[query]]) :
                 answers \in Answers}

Document(text, metadata) == [text |-> text, metadata |-> metadata]

\* row[0] or ''
OrEmpty(column) == IF column = Null THEN "" ELSE TheValue(column)

\* for row in rows: documents.append(...)
DocumentsOfRows(rows) ==
    [k \in 1..Len(rows) |->
        IF Len(rows[k]) >= 2
        THEN Document(OrEmpty(rows[k][1]), OrEmpty(rows[k][2]))
        ELSE Document(OrEmpty(rows[k][1]), "")]

RECURSIVE TryQueries(_, _, _)
\* for query in possible_queries: the documents and the queries executed
TryQueries(query, answers, executed) ==
    IF query \notin possible_queries THEN [documents |-> <<>>, executed |-> executed]
    ELSE IF answers[query].error THEN TryQueries(query + 1, answers, Append(executed, query))
    ELSE LET documents == DocumentsOfRows(answers[query].rows)
         IN IF documents # <<>>
            THEN [documents |-> documents, executed |-> Append(executed, query)]
            ELSE TryQueries(query + 1, answers, Append(executed, query))

\* _load_project_files on a tree of the given number of readable files
LoadProjectFiles(files) ==
    [k \in 1..Min(files, MaxProjectFiles) |-> Document("f", <<"path", k>>)]

Fetched(documents, executed, scanned) ==
    [documents |-> documents, executed |-> executed, scanned |-> scanned]

\* what _fetch_documents would do if a missing snapshot fell through to the
\* fallback
FetchDocumentsFallingBack(snapshot, files) ==
    LET tried == IF snapshot.kind = "database"
                 THEN TryQueries(1, snapshot.answers, <<>>)
                 ELSE [documents |-> <<>>, executed |-> <<>>]
    IN IF tried.documents = <<>>
       THEN Fetched(LoadProjectFiles(files), tried.executed, TRUE)
       ELSE Fetched(tried.documents, tried.executed, FALSE)

\* _fetch_documents
FetchDocuments(snapshot, files) ==
    IF snapshot.kind = "absent" THEN Fetched(<<>>, <<>>, FALSE)
    ELSE FetchDocumentsFallingBack(snapshot, files)

\* the terms and the entries of a dictionary; an entry's key that is absent
\* is None
Terms == {"t1", "t2"}

Frequencies == {None} \cup {Some(n) : n \in 1..MaxFrequency}

Entry(tokens, frequency, auto_frequency) ==
    [tokens |-> tokens, frequency |-> frequency, auto_frequency |-> auto_frequency]

ExistingEntries == {Entry("existing", f, a) : f \in Frequencies, a \in Frequencies}

MinedEntries == {Entry("mined", f, None) : f \in Frequencies}

Meta(source, total_terms, auto_generated_count) ==
    [source |-> source, total_terms |-> total_terms, auto_generated_count |-> auto_generated_count]

Dictionary(compound_terms, meta) == [compound_terms |-> compound_terms, meta |-> meta]

\* new_dict, as _build_dictionary makes it
NewDicts ==
    {Dictionary(terms, Meta("auto_generated", Cardinality(DOMAIN terms), None)) :
        terms \in UNION {[ts -> MinedEntries] : ts \in SUBSET Terms}}

\* what is at data/compound_terms.json: nothing, text that is no JSON, or
\* a dictionary
Existing(kind, compound_terms) == [kind |-> kind, compound_terms |-> compound_terms]

NoTerms == [term \in {} |-> Entry("", None, None)]

ExistingFiles ==
    {Existing(kind, NoTerms) : kind \in {"absent", "invalid"}}
        \cup {Existing("dictionary", terms) :
                 terms \in UNION {[ts -> ExistingEntries] : ts \in SUBSET Terms}}

\* data.get('frequency', 0)
FrequencyOf(data) == IF data.frequency = None THEN 0 ELSE TheValue(data.frequency)

\* the merge with the existing terms replaced by the mined ones
MergedTermsMinedFirst(existing_terms, new_terms) ==
    [term \in DOMAIN existing_terms \cup DOMAIN new_terms |->
        IF term \in DOMAIN new_terms THEN new_terms[term] ELSE existing_terms[term]]

\* merged_terms after the loop over new_dict['compound_terms']
MergedTerms(existing_terms, new_terms) ==
    [term \in DOMAIN existing_terms \cup DOMAIN new_terms |->
        IF term \notin DOMAIN existing_terms THEN new_terms[term]
        ELSE IF term \in DOMAIN new_terms
             THEN [existing_terms[term] EXCEPT !.auto_frequency = Some(FrequencyOf(new_terms[term]))]
             ELSE existing_terms[term]]

\* _merge_with_existing_dictionary
MergeWithExistingDictionary(existing, new_dict) ==
    IF existing.kind \in {"absent", "invalid"} THEN new_dict
    ELSE LET merged_terms == MergedTerms(existing.compound_terms, new_dict.compound_terms)
         IN Dictionary(merged_terms,
                       Meta("merged", Cardinality(DOMAIN merged_terms),
                            Some(Cardinality(DOMAIN new_dict.compound_terms))))

FetchCall(snapshot, files, result) ==
    [op |-> "_fetch_documents", snapshot |-> snapshot, files |-> files, result |-> result]

MergeCall(existing, new_dict, result) ==
    [op |-> "_merge_with_existing_dictionary", existing |-> existing, new_dict |-> new_dict,
     result |-> result]

FetchDocumentsCall(snapshot, files) ==
    /\ gen.op = "init"
    /\ gen' = FetchCall(snapshot, files, FetchDocuments(snapshot, files))

MergeWithExistingDictionaryCall(existing, new_dict) ==
    /\ gen.op = "init"
    /\ gen' = MergeCall(existing, new_dict, MergeWithExistingDictionary(existing, new_dict))

InitGenerator == gen = [op |-> "init"]

NextGenerator ==
    /\ gen.op = "init"
    /\ \/ \E snapshot \in Snapshots, files \in 0..MaxTreeFiles : FetchDocumentsCall(snapshot, files)
       \/ \E existing \in ExistingFiles, new_dict \in NewDicts :
             MergeWithExistingDictionaryCall(existing, new_dict)
    /\ UNCHANGED <<dbVars, fVars, sVars, mVars, cli, pre, tok, loader, cfg>>

(***************************************************************************)
(* Specifications                                                          *)
(***************************************************************************)
Init == InitDB /\ InitFallback /\ InitSearch /\ InitMcp /\ InitCli /\ InitPre /\ InitAnalyzer /\ InitLoader /\ InitConfig /\ InitGenerator

\* the document store alone
SpecDB == Init /\ [][NextDB]_vars

\* the fallback search engine alone
SpecFallback == Init /\ [][NextFallback]_vars

\* the search engine alone
SpecSearch == Init /\ [][NextSearch]_vars

\* the MCP server alone
SpecMcp == Init /\ [][NextMcp]_vars

\* the command line alone
SpecCli == Init /\ [][NextCli]_vars

\* the query preprocessor alone
SpecPre == Init /\ [][NextPre]_vars

\* the Japanese analyzer alone
SpecAnalyzer == Init /\ [][NextAnalyzer]_vars

\* the document loader alone
SpecLoader == Init /\ [][NextLoader]_vars

\* the configuration manager alone
SpecConfig == Init /\ [][NextConfig]_vars

\* the dictionary generator alone
SpecGenerator == Init /\ [][NextGenerator]_vars

Next == NextDB \/ NextFallback \/ NextSearch \/ NextMcp \/ NextCli \/ NextPre \/ NextAnalyzer \/ NextLoader \/ NextConfig \/ NextGenerator

Spec == Init /\ [][Next]_vars

(***************************************************************************)
(* Claims about the document store                                         *)
(***************************************************************************)
\* C1: a document operation called while no collection is selected (no
\* create_collection has succeeded since the manager was constructed) fails
\* with the no-collection error and leaves the store unchanged; once
\* create_collection has succeeded no document operation fails with that error.
\* The collection is selected only by a successful create_collection and
\* deselected only by constructing a new manager.
C1_NoCollectionGuard ==
    [][/\ DocumentOperation =>
            IF ~collection
            THEN dbResult'.status = "no_collection" /\ store' = store
            ELSE dbResult'.status # "no_collection"
       /\ (~collection /\ collection') =>
            (dbResult'.op = "create_collection" /\ dbResult'.status = "ok")
       /\ (collection /\ ~collection') => dbResult'.op = "init"]_vars

\* a document operation was refused for want of a collection while the store
\* held documents
C1_Witness == dbResult.status = "no_collection" /\ Len(store) > 0

\* the number of stored documents carrying project_id p
DocumentCount(p) ==
    Cardinality({i \in 1..Len(store) : store[i].metadata.project_id = p})

\* C2: list_projects returns exactly one entry per distinct project_id carried
\* by a stored document, with document_count the number of stored documents
\* carrying it.
C2_ProjectsMatchStore ==
    (dbResult.op = "list_projects" /\ dbResult.status = "ok") =>
        LET projects == dbResult.projects
        IN /\ \A j, k \in 1..Len(projects) : projects[j].id = projects[k].id => j = k
           /\ {projects[j].id : j \in 1..Len(projects)}
                = {store[i].metadata.project_id : i \in 1..Len(store)} \ {Absent}
           /\ \A j \in 1..Len(projects) :
                projects[j].document_count = DocumentCount(projects[j].id)

\* a listing of two documents of one project, beside a document list that has
\* seen updates and deletions
C2_Witness ==
    /\ dbResult.op = "list_projects"
    /\ \E j \in 1..Len(dbResult.projects) : dbResult.projects[j].document_count = 2

\* C3: delete_document(id), and update_document(id, ...) with text or metadata
\* given, on an id the selected collection does not hold return false and leave
\* the store unchanged (the store's own failures aside).
C3_AbsentIdReturnsFalse ==
    [][\A doc_id \in DocIds :
         (collection /\ doc_id \notin StoreIds(store) /\ dbResult'.status # "store_error"
          /\ \/ DeleteDocument(doc_id)
             \/ \E text \in OptTexts, metadata \in OptMetas :
                    (text # None \/ metadata # None) /\ UpdateDocument(doc_id, text, metadata))
         => (dbResult'.status = "ok" /\ dbResult'.flag = FALSE /\ store' = store)]_vars

\* an update of an absent id returned false while another document was stored
C3_Witness ==
    /\ dbResult.op = "update_document"
    /\ dbResult.status = "ok"
    /\ dbResult.flag = FALSE
    /\ Len(store) > 0

\* C4 as claimed: every stored document has non-blank text in every reachable
\* state.
C4_StoredTextNeverBlank == \A i \in 1..Len(store) : ~IsBlank(store[i].text)

\* C4 as amended: add_document rejects blank text with the empty-text error and
\* stores nothing, every document it stores has non-blank text, and a stored
\* document's text becomes blank only by an update_document call.
C4_NonBlankAtCreation ==
    [][/\ \A text \in DbTexts, metadata \in OptMetas, doc_id \in OptIds :
            (collection /\ AddDocument(text, metadata, doc_id)) =>
                /\ IsBlank(text) => (dbResult'.status = "empty_text" /\ store' = store)
                /\ \A i \in 1..Len(store') :
                      store'[i].id \notin StoreIds(store) => ~IsBlank(store'[i].text)
       /\ (C4_StoredTextNeverBlank /\ ~C4_StoredTextNeverBlank') =>
            dbResult'.op = "update_document"]_vars

\* add_document refused a blank text while a document was stored
C4_Witness == dbResult.status = "empty_text" /\ Len(store) > 0

\* C15: create_collection called again, by the same manager or by a later
\* one on the same store path, leaves every stored document in place and,
\* when it returns, has the collection selected; when the store makes it
\* raise, the selection is as it was.
C15_CreateCollectionKeepsDocuments ==
    [][dbResult'.op = "create_collection" =>
          /\ store' = store
          /\ dbResult'.status \in {"ok", "store_error"}
          /\ dbResult'.status = "ok" => collection'
          /\ dbResult'.status # "ok" => collection' = collection]_vars

\* create_collection returned on a collection that holds documents
C15_Witness ==
    /\ dbResult.op = "create_collection"
    /\ dbResult.status = "ok"
    /\ collection
    /\ Len(store) > 0

(***************************************************************************)
(* Claims about the fallback search engine                                 *)
(***************************************************************************)
\* the place of a stage in the order direct, preprocessed, split; the search
\* of the two parts joined belongs to the split stage
StageIndex(stage) ==
    CASE stage = "direct" -> 1
      [] stage = "preprocessed" -> 2
      [] OTHER -> 3

\* the searches search_with_fallback has made so far
FallbackLog == IF fCall.kind = "fallback" THEN fLog ELSE <<>>

\* the list search_with_fallback has returned
FallbackReturned == fpc = "done" /\ fCall.kind = "fallback"

\* C5: search_with_fallback widens in the order direct, preprocessed, split.
\* The first search is the direct one and the stages never go backwards; a
\* preprocessed or split search is made only when every earlier direct and
\* preprocessed search failed or left fewer than min_results documents
\* accumulated; and a direct or preprocessed search that succeeds and leaves
\* min_results documents or more is the last search of the call.
C5_StageOrder ==
    LET log == FallbackLog
    IN /\ \A i \in 1..Len(log) : (log[i].stage = "direct") <=> (i = 1)
       /\ \A i, j \in 1..Len(log) :
            i < j => StageIndex(log[i].stage) <= StageIndex(log[j].stage)
       /\ \A i, j \in 1..Len(log) :
            (i < j /\ StageIndex(log[i].stage) <= 2) =>
                (~log[i].issued \/ log[i].count < fCall.min_results)
       /\ \A i \in 1..Len(log) :
            (StageIndex(log[i].stage) <= 2 /\ log[i].issued
                /\ log[i].count >= fCall.min_results) =>
                (i = Len(log) /\ fpc = "done")

\* a call with a working engine went through all three stages, the
\* preprocessed one finding documents
C5_Witness ==
    /\ FallbackReturned
    /\ fCall.min_results >= 1
    /\ \E i, j \in 1..Len(fLog) :
          /\ fLog[i].stage = "preprocessed" /\ fLog[i].issued /\ fLog[i].ids # {}
          /\ fLog[j].stage = "split" /\ fLog[j].issued

\* a call of search_with_fallback is under way
FallbackRunning == fCall.kind = "fallback" /\ fpc \notin {"idle", "done"}

\* what the next search of the call under way can come to
NextOutcomes ==
    CASE fpc = "direct" -> Outcomes(fCall.query, fCall.top_k * 2)
      [] fpc = "split" /\ fQueue # <<>> ->
            Outcomes(Head(fQueue), (fCall.top_k \div Len(SplitParts)) + 1)
      [] fpc \in {"preprocessed", "combined"} /\ fQueue # <<>> ->
            Outcomes(Head(fQueue), fCall.top_k)
      [] OTHER -> {}

\* the most searches one call makes: the direct one, two preprocessed
\* queries, the parts, the two parts joined
MostSearches == 1 + 2 + Len(SplitParts) + 1

\* C6: search_with_fallback returns, also when every search failed or fewer
\* than min_results documents were found: a call under way always has a next
\* search to make whatever the earlier ones came to, every step of it makes one
\* more search, and it never makes more than a fixed number of them, so it
\* reaches its return. The list it returns has at most top_k results, pairwise
\* distinct document ids and scores in descending order.
C6_ReturnsBoundedDistinctSorted ==
    /\ [](FallbackRunning => (NextOutcomes # {} /\ Len(fLog) < MostSearches))
    /\ [][FallbackRunning =>
            /\ Len(fLog') = Len(fLog) + 1
            /\ fpc' = "done" \/ FallbackRunning']_vars
    /\ [](FallbackReturned =>
            /\ Len(fReturn) <= fCall.top_k
            /\ \A i, j \in 1..Len(fReturn) :
                  fReturn[i].document_id = fReturn[j].document_id => i = j
            /\ \A i, j \in 1..Len(fReturn) :
                  i < j => fReturn[i].score >= fReturn[j].score)

\* a call returned although it found fewer than min_results documents, the
\* same document coming back from two searches
C6_Witness ==
    /\ FallbackReturned
    /\ Len(all_results) < fCall.min_results
    /\ Len(fReturn) = fCall.top_k
    /\ \E i, j \in 1..Len(fLog) : i < j /\ fLog[i].ids \cap fLog[j].ids # {}

\* the weights the description gives the stages, in tenths
C7_StatedWeight(stage) ==
    CASE stage = "direct" -> 10
      [] stage = "preprocessed" -> 8
      [] stage = "fallback" -> 6
      [] stage = "split" -> 4

\* the first search of the call that returned the document
FirstReturning(document_id) ==
    CHOOSE i \in 1..Len(fLog) :
        /\ document_id \in fLog[i].ids
        /\ \A j \in 1..(i - 1) : document_id \notin fLog[j].ids

\* C7: every result search_with_fallback returns was returned by some search,
\* carries the method of the first search that returned it, and has the score
\* raw score x that method's weight (direct 1.0, preprocessed 0.8, fallback
\* 0.6, split 0.4), the weight applied once.
C7_ScoreIsRawTimesStageWeight ==
    FallbackReturned =>
        \A k \in 1..Len(fReturn) :
            LET r == fReturn[k]
            IN /\ \E i \in 1..Len(fLog) : r.document_id \in fLog[i].ids
               /\ r.search_method = fLog[FirstReturning(r.document_id)].stage
               /\ r.score = Weighted(fCall.score[r.document_id],
                                     C7_StatedWeight(r.search_method))

\* a call returned a split-part hit and a hit of the two parts joined
C7_Witness ==
    /\ FallbackReturned
    /\ \E i, j \in 1..Len(fReturn) :
          /\ fReturn[i].search_method = "split" /\ fReturn[i].score > 0
          /\ fReturn[j].search_method = "fallback" /\ fReturn[j].score > 0

\* a call of search_with_fallback has returned whose direct search reached the
\* engine and came back empty, the engine finding at least one document for
\* every part split_query makes of the query
DirectEmptyPartsMatch ==
    /\ FallbackReturned
    /\ fCall.parts_match
    /\ fLog[1].issued
    /\ fLog[1].ids = {}

\* C8 as stated: when the direct search returns no documents and every part
\* of the query matches at least one document, search_with_fallback returns a
\* non-empty list.
C8_PartsMatchNonEmpty == DirectEmptyPartsMatch => fReturn # <<>>

\* the documents the searches of one stage returned
StageIds(stage) == UNION {fLog[i].ids : i \in {j \in 1..Len(fLog) : fLog[j].stage = stage}}

\* C8, amended: when moreover min_results is at least 1 and split_query makes
\* two parts or more of the query, search_with_fallback returns a non-empty
\* list; unless the preprocessed stage already gathered min_results documents,
\* every part is searched for and every document these searches return is
\* among the accumulated results.
C8_TwoPartsMatchNonEmpty ==
    (DirectEmptyPartsMatch /\ fCall.min_results >= 1 /\ Len(SplitParts) >= 2) =>
        /\ fReturn # <<>>
        /\ (Len(all_results) >= fCall.min_results /\ StageIds("split") = {})
            \/ /\ \A k \in 1..Len(SplitParts) :
                     \E i \in 1..Len(fLog) :
                        /\ fLog[i].stage = "split"
                        /\ fLog[i].query = SplitParts[k]
                        /\ fLog[i].ids # {}
               /\ StageIds("split") \subseteq
                     {all_results[i].document_id : i \in 1..Len(all_results)}

\* the direct and the preprocessed searches found nothing, the searches of the
\* parts did, and their hits were returned
C8_Witness ==
    /\ DirectEmptyPartsMatch
    /\ fCall.min_results >= 1
    /\ Len(SplitParts) >= 2
    /\ StageIds("preprocessed") = {}
    /\ \E i \in 1..Len(fLog) : fLog[i].stage = "preprocessed"
    /\ \A i \in 1..Len(fReturn) : fReturn[i].search_method = "split"
    /\ fReturn # <<>>

\* the variations search_with_variations searches for
SearchedVariations == GetQueryVariations(fCall.query, VariationsWanted, fCall.terms)

\* C9: search_with_variations returns each document once, attributed to the
\* first variation that returned it, with final score = raw score x that
\* variation's weight (1.0 for the original query) and nothing else, sorted by
\* final score in descending order.
C9_ScoreIsRawTimesVariationWeight ==
    (fpc = "done" /\ fCall.kind = "variations") =>
        /\ \A i, j \in 1..Len(fReturn) :
              fReturn[i].document_id = fReturn[j].document_id => i = j
        /\ \A i, j \in 1..Len(fReturn) : i < j => fReturn[i].score >= fReturn[j].score
        /\ \A k \in 1..Len(fReturn) :
              LET r == fReturn[k]
                  first == FirstReturning(r.document_id)
              IN /\ \E i \in 1..Len(fLog) : r.document_id \in fLog[i].ids
                 /\ r.search_method = SearchedVariations[first].type
                 /\ r.score = Weighted(fCall.score[r.document_id],
                                       SearchedVariations[first].weight)

\* C28: within one search_with_fallback call no query string is handed to
\* the search engine twice: the direct query, the preprocessed variants, the
\* split parts and the combined query are pairwise distinct.
C28_NoQuerySubmittedTwice ==
    \A i, j \in 1..Len(FallbackLog) :
        i # j => FallbackLog[i].query # FallbackLog[j].query

(***************************************************************************)
(* Claims about the search engine                                          *)
(***************************************************************************)
\* C10: in the list vector_search, keyword_search or hybrid_search returns,
\* the result at position i carries rank = i.
C10_RankIsPosition ==
    sResult.status = "ok" =>
        \A i \in 1..Len(sResult.results) : sResult.results[i].rank = i

\* the call returned a list
Returned(ops) == sResult.status = "ok" /\ sResult.op \in ops

\* C11: the list format_results produces, and so the lists vector_search and
\* keyword_search return, is ordered by score from highest to lowest, whatever
\* the order of the bundle.
C11_OrderedByScore ==
    Returned({"format_results", "vector_search", "keyword_search"}) =>
        \A i, j \in 1..Len(sResult.results) :
            i < j => sResult.results[i].score >= sResult.results[j].score

\* the distance the store gave a returned document
StoreDistance(r) == sCall.ranking.dist[r.id]

\* C12: with distances that are not negative and alpha in [0,1], every result
\* of format_results, vector_search, keyword_search and hybrid_search has its
\* score in [0,1], as have the two scores a hybrid result carries; the score
\* format_results gives is 1 - distance, and exactly 0 from distance 1 on.
C12_ScoreInUnitRange ==
    Returned({"format_results", "vector_search", "keyword_search", "hybrid_search"}) =>
        \A i \in 1..Len(sResult.results) :
            LET r == sResult.results[i]
            IN /\ 0 <= r.score /\ r.score <= 1000
               /\ sResult.op = "hybrid_search" =>
                    /\ 0 <= r.vector_score /\ r.vector_score <= 1000
                    /\ 0 <= r.keyword_score /\ r.keyword_score <= 1000
               /\ sResult.op \in {"format_results", "vector_search"} =>
                    r.score = IF StoreDistance(r) >= 1000 THEN 0
                              ELSE 1000 - StoreDistance(r)

\* vector_search returned a document the store put at a distance above 1
C12_Witness ==
    /\ Returned({"vector_search"})
    /\ \E i \in 1..Len(sResult.results) :
          StoreDistance(sResult.results[i]) > 1000 /\ sResult.results[i].score = 0

\* the lists the two sub-searches of the hybrid_search call returned
SubVector ==
    VectorResults(sCall.ranking, Min(sCall.top_k * 2, 10),
                  CombinedFilters(sCall.project_id, sCall.filters))

SubKeyword ==
    KeywordResults(sCall.query, sCall.ranking, Min(sCall.top_k * 2, 10),
                   CombinedFilters(sCall.project_id, sCall.filters))

\* the score a list gives a document, 0 when the list does not hold it
ScoreIn(results, id) ==
    IF \E i \in 1..Len(results) : results[i].id = id
    THEN results[CHOOSE i \in 1..Len(results) : results[i].id = id].score
    ELSE 0

\* C13: every result of hybrid_search is a document one of its two
\* sub-searches returned, no document comes twice, and its score is
\* alpha x keyword score + (1 - alpha) x vector score, a side that did not
\* return the document counting 0; with alpha = 0 it is the vector score and
\* with alpha = 1 the keyword score.
C13_HybridScoreOverUnion ==
    Returned({"hybrid_search"}) =>
        /\ \A i, j \in 1..Len(sResult.results) :
              sResult.results[i].id = sResult.results[j].id => i = j
        /\ \A i \in 1..Len(sResult.results) :
              LET r == sResult.results[i]
                  v == ScoreIn(SubVector, r.id)
                  k == ScoreIn(SubKeyword, r.id)
              IN /\ \/ \E n \in 1..Len(SubVector) : SubVector[n].id = r.id
                    \/ \E n \in 1..Len(SubKeyword) : SubKeyword[n].id = r.id
                 /\ r.vector_score = v
                 /\ r.keyword_score = k
                 /\ r.score * 10 = sCall.alpha * k + (10 - sCall.alpha) * v
                 /\ sCall.alpha = 0 => r.score = v
                 /\ sCall.alpha = 10 => r.score = k

\* a hybrid search with alpha = 0.5 returned a document that only its keyword
\* sub-search had found
C13_Witness ==
    /\ Returned({"hybrid_search"})
    /\ sCall.alpha = 5
    /\ \E i \in 1..Len(sResult.results) :
          /\ \A n \in 1..Len(SubVector) : SubVector[n].id # sResult.results[i].id
          /\ sResult.results[i].keyword_score > 0
          /\ sResult.results[i].score > 0

\* C14: every document keyword_search returns contains, without regard to
\* case, at least one keyword of the query; read here in the weakest way, any
\* word of the query counting as a keyword.
C14_ReturnedContainsKeyword ==
    Returned({"keyword_search"}) =>
        \A i \in 1..Len(sResult.results) :
            ContainsKeywords(sResult.results[i].text, SplitWhitespace(sCall.query))

(***************************************************************************)
(* Claims about the MCP server                                             *)
(***************************************************************************)
McpDone(t) == mcpTasks[t].pc = "done"

DocumentsListed == cli.op = "documents" /\ cli.status \in {"table", "no_documents"}

\* the first L documents of the store
FirstOfStore(L) == [i \in 1..Min(L, Len(store)) |-> store[i]]

\* the documents of docs that carry project_id P, in order
WithProject(docs, P) == SelectSeq(docs, LAMBDA doc : doc.metadata.project_id = P)

\* C18 as stated: documents with a project P and limit L shows exactly the
\* documents of project P among the first L of the store.
C18_GivenProjectFilters ==
    DocumentsListed /\ cli.project # None =>
        cli.rows = WithProject(FirstOfStore(cli.limit), TheValue(cli.project))

\* C18, amended: documents with a non-empty project P and limit L shows
\* exactly the documents of project P among the first L of the store, so at
\* most L rows and possibly none although the store holds a document of P
\* further on; with an empty P, as with none, it shows the first L documents.
C18_LimitBeforeProjectFilter ==
    DocumentsListed =>
        /\ Len(cli.rows) <= cli.limit
        /\ (cli.status = "no_documents") = (cli.rows = <<>>)
        /\ IF cli.project # None /\ TheValue(cli.project) # ""
           THEN cli.rows = WithProject(FirstOfStore(cli.limit), TheValue(cli.project))
           ELSE cli.rows = FirstOfStore(cli.limit)

\* no row is shown although a document of the project lies beyond the window
C18_Witness ==
    /\ DocumentsListed
    /\ cli.project # None
    /\ cli.rows = <<>>
    /\ cli.limit < Len(store)
    /\ WithProject(store, TheValue(cli.project)) # <<>>

(***************************************************************************)
(* Claims about the query preprocessor                                     *)
(***************************************************************************)
\* C19: for every query and every max_variations >= 1, get_query_variations
\* returns at most max_variations entries, the first is the original query
\* with weight 1.0 and type 'original', and every weight lies in [0, 1].
C19_VariationsBoundedAndWeighted ==
    pre.op = "get_query_variations" =>
        /\ Len(pre.variations) <= pre.max_variations
        /\ Len(pre.variations) >= 1
        /\ pre.variations[1] = Variation(pre.query, 10, "original")
        /\ \A i \in 1..Len(pre.variations) :
              pre.variations[i].weight >= 0 /\ pre.variations[i].weight <= 10

\* the term of a dictionary entry occurs in the query and the entry has tokens
TokensApply(info, query) == Contains(query, info.term) /\ info.tokens # None

\* C20: preprocess returns a list that begins with the original query, holds
\* no string twice, and holds, for each dictionary term with tokens that
\* occurs in the query, the query with the term replaced by its tokens
\* joined by spaces.
C20_PreprocessKeepsOriginalAndTokens ==
    pre.op = "preprocess" =>
        /\ Len(pre.queries) >= 1
        /\ pre.queries[1] = pre.query
        /\ \A i, j \in 1..Len(pre.queries) : i # j => pre.queries[i] # pre.queries[j]
        /\ \A k \in 1..Len(pre.terms) :
              TokensApply(pre.terms[k], pre.query) =>
                  \E i \in 1..Len(pre.queries) :
                      pre.queries[i] = Replace(pre.query, pre.terms[k].term,
                                               Join(TheValue(pre.terms[k].tokens)))

\* a term with tokens occurs in the query, and the spaced form the
\* mixed-language step adds is the token form already in the list
C20_Witness ==
    /\ pre.op = "preprocess"
    /\ \E k \in 1..Len(pre.terms) :
          /\ TokensApply(pre.terms[k], pre.query)
          /\ Len(pre.queries) >= 2
          /\ pre.queries[2] = Replace(pre.query, pre.terms[k].term,
                                      Join(TheValue(pre.terms[k].tokens)))
          /\ HandleMixedLanguage(pre.query) = <<pre.queries[2]>>

(***************************************************************************)
(* More claims about the search engine                                     *)
(***************************************************************************)
\* what vector_search returns for the query, filters and top_k of the call
SameVectorSearch ==
    VectorResults(sCall.ranking, sCall.top_k, CombinedFilters(sCall.project_id, sCall.filters))

\* C29: hybrid_search returns at least as many results as vector_search does
\* for the same query, filters and top_k.
C29_HybridAtLeastVector ==
    Returned({"hybrid_search"}) => Len(sResult.results) >= Len(SameVectorSearch)

(***************************************************************************)
(* Claims about the Japanese analyzer                                      *)
(***************************************************************************)
\* hiragana, U+3040 to U+309F
Hiragana == HiraganaMatched \cup HiraganaUnmatched

\* the token the stated rules make at the head of a text that begins with no
\* whitespace
StatedToken(rest) ==
    IF FindLongestTechnicalTerm(rest) # None THEN TheValue(FindLongestTechnicalTerm(rest))
    ELSE IF rest[1] \in AsciiAlnum THEN SubSeq(rest, 1, RunLen(rest, AsciiAlnum))
    ELSE IF rest[1] \in Kanji THEN SubSeq(rest, 1, RunLen(rest, Kanji))
    ELSE IF rest[1] \in Katakana THEN SubSeq(rest, 1, RunLen(rest, Katakana))
    ELSE IF rest[1] \in Hiragana
         THEN IF \E p \in Particles : StartsWith(rest, p)
              THEN Longest({p \in Particles : StartsWith(rest, p)})
              ELSE SubSeq(rest, 1, RunLen(rest, Hiragana))
    ELSE <<rest[1]>>

\* C21: every token is the one the first matching rule makes at its position,
\* in the order longest technical term, ASCII alphanumeric run, kanji run,
\* katakana run, hiragana, single other symbol; at a hiragana character it is
\* the longest particle the remaining text starts with, or else the maximal
\* hiragana run.
C21_FirstMatchingRule ==
    \A k \in 1..Len(tok.tokens) :
        tok.tokens[k].token = StatedToken(From(tok.text, tok.tokens[k].at + 1))

RECURSIVE Concat(_)
Concat(tokens) == IF tokens = <<>> THEN <<>> ELSE tokens[1].token \o Concat(Tail(tokens))

NoWhitespace(s) == SelectSeq(s, LAMBDA c : c # Space)

\* C30: tokenize ends: every round of its loop moves the position forward and
\* never past the end of the text; no token is empty; and when it returns the
\* tokens joined are the text, whitespace left out of both.
C30_TokenizeCoversText ==
    /\ [](tok.i <= Len(tok.text))
    /\ [][tok.pc = "loop" /\ tok'.pc = "loop" => tok'.i > tok.i]_vars
    /\ [](\A k \in 1..Len(tok.tokens) : tok.tokens[k].token # <<>>)
    /\ [](tok.pc = "done" =>
             NoWhitespace(Concat(tok.tokens)) = NoWhitespace(tok.text))

\* a text with whitespace, a technical term and a hiragana the pattern does
\* not match, which went out as a symbol
C30_Witness ==
    /\ tok.pc = "done"
    /\ Space \in Range(tok.text)
    /\ \E k \in 1..Len(tok.tokens) : tok.tokens[k].rule = "symbol"
                                      /\ tok.tokens[k].token[1] \in HiraganaUnmatched
    /\ \E k \in 1..Len(tok.tokens) : tok.tokens[k].rule = "technical_term"

(***************************************************************************)
(* Claims about the document loader                                        *)
(***************************************************************************)
ChunkTexts == [k \in 1..Len(loader.result.chunks) |-> loader.result.chunks[k].text]

RECURSIVE DiscountOverlap(_, _)
\* the chunk texts joined, the declared overlap taken off each but the first
DiscountOverlap(texts, overlap) ==
    IF texts = <<>> THEN <<>>
    ELSE texts[1] \o DiscountOverlap(
             [k \in 1..(Len(texts) - 1) |->
                 IF k = 1 THEN From(texts[2], overlap + 1) ELSE texts[k + 1]],
             overlap)

\* the characters of the sections: neither whitespace nor of the separator
SectionChars(s) == SelectSeq(s, LAMBDA c : c # Space /\ c \notin Range(loader.separator))

\* C22: for non-blank content, chunk_size >= 1, 0 <= chunk_overlap <
\* chunk_size and a non-empty separator, chunk_document returns normally with at
\* least one chunk, none empty, and the chunk texts joined with the declared
\* overlap discounted give back the characters of the content's sections.
C22_ChunksReproduceContent ==
    (/\ loader.op = "chunk_document"
     /\ ~IsBlank(loader.content)
     /\ loader.separator # <<>>
     /\ loader.chunk_overlap < loader.chunk_size) =>
        /\ loader.result.status = "ok"
        /\ Len(ChunkTexts) >= 1
        /\ \A k \in 1..Len(ChunkTexts) : ChunkTexts[k] # <<>>
        /\ SectionChars(DiscountOverlap(ChunkTexts, loader.chunk_overlap))
              = SectionChars(loader.content)

\* C27: every chunk chunk_document emits has a text of at most chunk_size
\* characters.
C27_ChunkWithinSize ==
    (loader.op = "chunk_document" /\ loader.result.status = "ok") =>
        \A k \in 1..Len(ChunkTexts) : Len(ChunkTexts[k]) <= loader.chunk_size

(***************************************************************************)
(* Claims about the configuration manager                                  *)
(***************************************************************************)
\* the paths of the defaults and of the files: a section, a key of it, and
\* the key of a dict given for a leaf
SectionKeys == FileKeys \cup UNION {DOMAIN default_config[section].dict : section \in DOMAIN default_config}

Paths ==
    LET sections == DOMAIN default_config \cup FileSections
    IN {<<section>> : section \in sections}
          \cup {<<section, key>> : section \in sections, key \in SectionKeys}
          \cup {<<section, key, "nested">> : section \in sections, key \in SectionKeys}

RECURSIVE Has(_, _)
\* the dict has a value at the path
Has(d, path) ==
    /\ path[1] \in DOMAIN d
    /\ Len(path) > 1 => d[path[1]].isdict /\ Has(d[path[1]].dict, Tail(path))

RECURSIVE At(_, _)
\* the value of the dict at a path it has
At(d, path) == IF Len(path) = 1 THEN d[path[1]] ELSE At(d[path[1]].dict, Tail(path))

IsLeaf(d, path) == Has(d, path) /\ ~At(d, path).isdict

\* the file overrides a path it gives a value for, and every path below a
\* scalar it gives (a value that is no dict replaces wholesale)
Overrides(d, path) ==
    \/ Has(d, path)
    \/ \E n \in 1..(Len(path) - 1) : IsLeaf(d, SubSeq(path, 1, n))

LoadedMapping ==
    /\ cfg.op = "ConfigManager"
    /\ cfg.file.kind \in {"empty", "mapping"}

\* C23: after loading a well-formed configuration file (a mapping, or an
\* empty document), the construction succeeds, every default leaf whose path
\* the file does not override keeps its default value, and every leaf of the
\* file is in the configuration with the file's value; so a file that gives
\* part of a section leaves the section's other defaults in place.
C23_DeepMerge ==
    LoadedMapping =>
        /\ cfg.result.status = "ok"
        /\ \A path \in Paths :
              /\ (IsLeaf(default_config, path) /\ ~Overrides(cfg.file.mapping, path)) =>
                    /\ IsLeaf(cfg.result.config, path)
                    /\ At(cfg.result.config, path) = At(default_config, path)
              /\ IsLeaf(cfg.file.mapping, path) =>
                    /\ IsLeaf(cfg.result.config, path)
                    /\ At(cfg.result.config, path) = At(cfg.file.mapping, path)

\* a file that gives database.path and no other key of that section has
\* been loaded: the path is the file's, the section's type the default
C23_Witness ==
    /\ LoadedMapping
    /\ "database" \in DOMAIN cfg.file.mapping
    /\ cfg.file.mapping["database"] = DictValue(DictOf({<<"path", Scalar("file")>>}))
    /\ At(cfg.result.config, <<"database", "path">>) = Scalar("file")
    /\ At(cfg.result.config, <<"database", "type">>) = Scalar("chromadb")

\* C24: a ConfigManager constructed with an explicitly supplied path at
\* which no file exists fails with FileNotFoundError.
C24_MissingExplicitPathFails ==
    (/\ cfg.op = "ConfigManager"
     /\ cfg.explicit
     /\ cfg.file.kind = "missing") => cfg.result.status = "FileNotFoundError"

(***************************************************************************)
(* Claims about the dictionary generator                                   *)
(***************************************************************************)
Fetching == gen.op = "_fetch_documents"

\* the snapshot gives documents: it is a database and a query shape
\* returns rows
YieldsRows(snapshot) ==
    /\ snapshot.kind = "database"
    /\ \E query \in possible_queries :
          ~snapshot.answers[query].error /\ snapshot.answers[query].rows # <<>>

\* C25: _fetch_documents scans the project tree exactly when no documents
\* come from the store snapshot: when the snapshot file is absent, and when
\* no query shape yields rows; never once a query shape has returned rows.
C25_FallsBackExactlyWithoutRows ==
    Fetching => (gen.result.scanned <=> ~YieldsRows(gen.snapshot))

\* a dictionary file was there and the mined dictionary was merged into it
Merging == gen.op = "_merge_with_existing_dictionary" /\ gen.existing.kind = "dictionary"

ExistingTerms == gen.existing.compound_terms

MinedTerms == gen.new_dict.compound_terms

MergedResult == gen.result.compound_terms

\* no existing term is removed, and a mined term the existing dictionary
\* lacks is there with its mined entry
TermsKeptAndInserted ==
    /\ DOMAIN MergedResult = DOMAIN ExistingTerms \cup DOMAIN MinedTerms
    /\ \A term \in DOMAIN MinedTerms \ DOMAIN ExistingTerms : MergedResult[term] = MinedTerms[term]

\* C26 as stated: every existing term keeps all of its field values, and
\* gains an auto_frequency only if it has none and was also mined; mined
\* terms the existing dictionary lacks are inserted; no term is removed.
C26_ExistingFieldsAllKept ==
    Merging =>
        /\ TermsKeptAndInserted
        /\ \A term \in DOMAIN ExistingTerms :
              /\ MergedResult[term].tokens = ExistingTerms[term].tokens
              /\ MergedResult[term].frequency = ExistingTerms[term].frequency
              /\ ExistingTerms[term].auto_frequency # None =>
                    MergedResult[term].auto_frequency = ExistingTerms[term].auto_frequency
              /\ term \notin DOMAIN MinedTerms => MergedResult[term] = ExistingTerms[term]

\* C26: every existing term keeps the values of its fields other than
\* auto_frequency; an existing term that was also mined has auto_frequency
\* set to the mined frequency, added or replaced, and one that was not mined
\* is unchanged; mined terms the existing dictionary lacks are inserted; no
\* term is removed.
C26_ExistingKeptButAutoFrequency ==
    Merging =>
        /\ TermsKeptAndInserted
        /\ \A term \in DOMAIN ExistingTerms :
              /\ MergedResult[term].tokens = ExistingTerms[term].tokens
              /\ MergedResult[term].frequency = ExistingTerms[term].frequency
              /\ MergedResult[term].auto_frequency =
                    IF term \in DOMAIN MinedTerms
                    THEN Some(FrequencyOf(MinedTerms[term]))
                    ELSE ExistingTerms[term].auto_frequency

\* an existing term with an auto_frequency of 1 was mined again with
\* frequency 2 next to a term the existing dictionary lacked: the first has
\* auto_frequency 2 and its own tokens, the second its mined entry
C26_Witness ==
    /\ Merging
    /\ DOMAIN ExistingTerms = {"t1"}
    /\ ExistingTerms["t1"].auto_frequency = Some(1)
    /\ DOMAIN MinedTerms = {"t1", "t2"}
    /\ MinedTerms["t1"].frequency = Some(2)
    /\ MergedResult["t1"] = Entry("existing", ExistingTerms["t1"].frequency, Some(2))
    /\ MergedResult["t2"] = MinedTerms["t2"]

====
